---- MODULE Spec2Model ----
(***************************************************************************)
(* Data preparation of the classifier-optimization notebook                *)
(* (05-classifier-optimization, section 1 "Load the data").                *)
(*                                                                         *)
(* The notebook cell is modelled statement by statement.  The helpers it   *)
(* imports from utils (label2TR, shift_timing, reshape_data, normalize,    *)
(* blockwise_sampling) are not part of the source tree; they are modelled  *)
(* from their description in the specification (sections 3, 4 and 7).      *)
(*                                                                         *)
(* Numbers.  Times are integers in tenths of a second.  A feature value    *)
(* is an exact rational <<n, d>> (d > 0, lowest terms).  A z-score is an   *)
(* exact signed root <<s, n, d>> standing for s * sqrt(n / d).             *)
(***************************************************************************)
EXTENDS Integers, Sequences, FiniteSets, TLC

VARIABLES
    pc,                     \* position in the load-data cell
    err,                    \* "none", or the error that stopped the cell
    warnings,               \* the runs a warning was issued for
    vdc_hrf_lag,            \* configured hemodynamic lag (tenths of a second)
    stim_label_allruns,     \* label matrix: one record per trial (column)
    epi_mask_data_all,      \* one voxel vector per acquisition (TR)
    shift_size,
    run_ids_raw,
    TRs_run,
    stim_label_TR,
    stim_label_TR_shifted,
    bold_data_raw,
    labels_raw,
    bold_normalized_raw,
    bold_data,
    labels,
    run_ids,
    bold_normalized,
    \* the classification cells (sections 2 and 3 of the notebook)
    sp,                     \* the (train, test) pairs of PredefinedSplit(run_ids)
    fold,                   \* folds of the split loop completed so far
    selected_voxels,        \* the fitted voxel selection
    clf,                    \* the fitted classifier
    score,                  \* the last score, with the rows it was taken on
    clf_score,
    iter,                   \* permutations completed so far (loop variable i)
    permuted_labels,
    clf_score_i,
    inner_clf,              \* the grid search of the nested cell
    C_best,
    parameters              \* the hyperparameter grid

\* the variables of the load-data cell
load_vars == <<pc, err, warnings, vdc_hrf_lag, stim_label_allruns, epi_mask_data_all,
               shift_size, run_ids_raw, TRs_run, stim_label_TR,
               stim_label_TR_shifted, bold_data_raw, labels_raw,
               bold_normalized_raw, bold_data, labels, run_ids, bold_normalized>>

\* the variables of the classification cells
cv_vars == <<sp, fold, selected_voxels, clf, score, clf_score, iter,
             permuted_labels, clf_score_i, inner_clf, C_best, parameters>>

vars == <<load_vars, cv_vars>>

----------------------------------------------------------------------------
(* Program constants *)

\* number of scanning runs of the localizer
vdc_n_runs == 3
\* sampling interval, 1.5 s, in tenths of a second
vdc_TR == 15
\* stimulus categories: 1 = Faces, 2 = Scenes, 3 = Objects
NCat == 3
\* the "no stimulus" label of a TR-label vector
Sentinel == 0

(* Bounds of the model *)

\* acquisitions per run in the small scenarios
MaxTRsRun == 2
\* longest TR-label vector handed to the shifter / reshaper on its own
MaxLen == 4
\* most rows handed to the normalizer / blockwise sampler on its own
MaxRows == 4
\* voxels per acquisition
NVox == 1
\* number of synthetic feature patterns
NEpi == 2

----------------------------------------------------------------------------
(* Exact arithmetic *)

Abs(x) == IF x < 0 THEN -x ELSE x

Sgn(x) == IF x < 0 THEN -1 ELSE IF x = 0 THEN 0 ELSE 1

RECURSIVE GCD(_, _)
GCD(a, b) == IF b = 0 THEN a ELSE GCD(b, a % b)

\* the rational n / d in lowest terms (d > 0)
RatReduce(n, d) ==
    LET g == GCD(Abs(n), d) IN <<n \div g, d \div g>>

Rat(x) == <<x, 1>>

RatAdd(p, q) == RatReduce(p[1] * q[2] + q[1] * p[2], p[2] * q[2])

\* sums and folds split their range in halves, which keeps the order of
\* the elements and the depth of the evaluation small
RECURSIVE RatSumRange(_, _, _)
RatSumRange(xs, lo, hi) ==
    IF lo > hi THEN Rat(0)
    ELSE IF lo = hi THEN xs[lo]
    ELSE LET mid == (lo + hi) \div 2
         IN  RatAdd(RatSumRange(xs, lo, mid), RatSumRange(xs, mid + 1, hi))

RatSum(xs) == RatSumRange(xs, 1, Len(xs))

RECURSIVE IntSumRange(_, _, _)
IntSumRange(xs, lo, hi) ==
    IF lo > hi THEN 0
    ELSE IF lo = hi THEN xs[lo]
    ELSE LET mid == (lo + hi) \div 2
         IN  IntSumRange(xs, lo, mid) + IntSumRange(xs, mid + 1, hi)

IntSum(xs) == IntSumRange(xs, 1, Len(xs))

\* np.mean of a non-empty sequence of rationals
Mean(xs) ==
    LET s == RatSum(xs) IN RatReduce(s[1], s[2] * Len(xs))

\* np.mean(rows, axis = 0): the voxel-wise mean of a non-empty list of rows
MeanRows(rows) ==
    [v \in 1..Len(rows[1]) |-> Mean([k \in 1..Len(rows) |-> rows[k][v]])]

----------------------------------------------------------------------------
(* utils.label2TR *)

\* acquisition index (0-based) of a trial: the enclosing sampling interval
\* of its onset, offset by the start of its run
TRIndex(trial, TR, TRs) ==
    (trial.onset \div TR) + (trial.run - 1) * TRs

\* a vector of num_runs * TRs sentinels, then one assignment per trial in
\* the order of the trials: an entry ends up with the category of the last
\* trial assigned to it
label2TR(stim_label, num_runs, TR, TRs) ==
    [t \in 1..(num_runs * TRs) |->
        LET W == {i \in 1..Len(stim_label) : TRIndex(stim_label[i], TR, TRs) + 1 = t}
        IN  IF W = {} THEN Sentinel
            ELSE stim_label[CHOOSE i \in W : \A j \in W : j <= i].cat]

----------------------------------------------------------------------------
(* utils.shift_timing *)

\* the shift is rejected when it exceeds the length of the vector
ShiftValid(label_TR, TR_shift_size) == TR_shift_size <= Len(label_TR)

\* the labels move forward by TR_shift_size positions, to the later
\* acquisitions at which the response to the stimulus is measured: the
\* label of acquisition i goes to acquisition i + TR_shift_size, the
\* positions vacated at the start hold the sentinel and the labels moved
\* past the end are dropped
shift_timing(label_TR, TR_shift_size) ==
    [i \in 1..Len(label_TR) |->
        IF i > TR_shift_size
        THEN label_TR[i - TR_shift_size]
        ELSE Sentinel]

----------------------------------------------------------------------------
(* utils.reshape_data *)

\* the positions of the labelled acquisitions, scanning front to back
RECURSIVE LabelIndexRange(_, _, _)
LabelIndexRange(label_TR_shifted, lo, hi) ==
    IF lo > hi THEN <<>>
    ELSE IF lo = hi
         THEN (IF label_TR_shifted[lo] # Sentinel THEN <<lo>> ELSE <<>>)
    ELSE LET mid == (lo + hi) \div 2
         IN  LabelIndexRange(label_TR_shifted, lo, mid)
             \o LabelIndexRange(label_TR_shifted, mid + 1, hi)

LabelIndex(label_TR_shifted) ==
    LabelIndexRange(label_TR_shifted, 1, Len(label_TR_shifted))

\* feature matrix and label vector must agree in their number of acquisitions
ReshapeValid(label_TR_shifted, masked_data_all) ==
    Len(label_TR_shifted) = Len(masked_data_all)

reshape_data_rows(label_TR_shifted, masked_data_all) ==
    LET label_index == LabelIndex(label_TR_shifted)
    IN  [k \in 1..Len(label_index) |-> masked_data_all[label_index[k]]]

reshape_data_labels(label_TR_shifted) ==
    LET label_index == LabelIndex(label_TR_shifted)
    IN  [k \in 1..Len(label_index) |-> label_TR_shifted[label_index[k]]]

----------------------------------------------------------------------------
(* utils.normalize *)

LCM(a, b) == (a * b) \div GCD(a, b)

RECURSIVE CommonDenRange(_, _, _)
CommonDenRange(xs, lo, hi) ==
    IF lo > hi THEN 1
    ELSE IF lo = hi THEN xs[lo][2]
    ELSE LET mid == (lo + hi) \div 2
         IN  LCM(CommonDenRange(xs, lo, mid), CommonDenRange(xs, mid + 1, hi))

\* a common denominator of a sequence of rationals
CommonDen(xs) == CommonDenRange(xs, 1, Len(xs))

\* StandardScaler on one column: (x - mean) / std with the population
\* standard deviation.  With the column scaled to integers e (common
\* denominator), n = Len, S = sum e, dev = n * e - S and Q = sum dev^2,
\* z^2 = n * dev^2 / Q.  A column without variance is only centred.
ZScores(xs) ==
    LET n   == Len(xs)
        D   == CommonDen(xs)
        e   == [k \in 1..n |-> xs[k][1] * (D \div xs[k][2])]
        S   == IntSum(e)
        dev == [k \in 1..n |-> n * e[k] - S]
        Q   == IntSum([k \in 1..n |-> dev[k] * dev[k]])
    IN  [k \in 1..n |->
            IF Q = 0 THEN <<0, 0, 1>>
            ELSE LET a == n * dev[k] * dev[k]
                     g == GCD(a, Q)
                 IN  <<Sgn(dev[k]), a \div g, Q \div g>>]

\* the rows of run r, front to back (bold_data_[run_ids == r, :])
RECURSIVE RowsOfRunRange(_, _, _, _)
RowsOfRunRange(ids, r, lo, hi) ==
    IF lo > hi THEN <<>>
    ELSE IF lo = hi THEN (IF ids[lo] = r THEN <<lo>> ELSE <<>>)
    ELSE LET mid == (lo + hi) \div 2
         IN  RowsOfRunRange(ids, r, lo, mid) \o RowsOfRunRange(ids, r, mid + 1, hi)

RowsOfRun(ids, r) == RowsOfRunRange(ids, r, 1, Len(ids))

\* position of row i among the rows idx
PosIn(idx, i) == CHOOSE k \in 1..Len(idx) : idx[k] = i

\* feature matrix and run-id vector must agree in their number of rows
NormalizeValid(bold_data_, ids) == Len(bold_data_) = Len(ids)

\* every voxel column is standardized within each run, from the rows of
\* that run only
normalize(bold_data_, ids) ==
    [i \in 1..Len(bold_data_) |->
        LET idx == RowsOfRun(ids, ids[i])
        IN  [v \in 1..Len(bold_data_[i]) |->
                ZScores([k \in 1..Len(idx) |-> bold_data_[idx[k]][v]])[PosIn(idx, i)]]]

----------------------------------------------------------------------------
(* utils.blockwise_sampling *)

\* last row of the block that starts at row i: the (label, run id) pair
\* stays the same up to there
RECURSIVE BlockEnd(_, _, _)
BlockEnd(eventwise_labels, eventwise_run_ids, i) ==
    IF /\ i < Len(eventwise_labels)
       /\ eventwise_labels[i + 1] = eventwise_labels[i]
       /\ eventwise_run_ids[i + 1] = eventwise_run_ids[i]
    THEN BlockEnd(eventwise_labels, eventwise_run_ids, i + 1)
    ELSE i

\* the blocks <<first row, last row>> from row i on, in input order
RECURSIVE Blocks(_, _, _)
Blocks(eventwise_labels, eventwise_run_ids, i) ==
    IF i > Len(eventwise_labels) THEN <<>>
    ELSE LET j == BlockEnd(eventwise_labels, eventwise_run_ids, i)
         IN  <<<<i, j>>>> \o Blocks(eventwise_labels, eventwise_run_ids, j + 1)

blockwise_data(eventwise_data, eventwise_labels, eventwise_run_ids) ==
    LET b == Blocks(eventwise_labels, eventwise_run_ids, 1)
    IN  [k \in 1..Len(b) |-> MeanRows(SubSeq(eventwise_data, b[k][1], b[k][2]))]

blockwise_labels(eventwise_labels, eventwise_run_ids) ==
    LET b == Blocks(eventwise_labels, eventwise_run_ids, 1)
    IN  [k \in 1..Len(b) |-> eventwise_labels[b[k][1]]]

blockwise_run_ids(eventwise_labels, eventwise_run_ids) ==
    LET b == Blocks(eventwise_labels, eventwise_run_ids, 1)
    IN  [k \in 1..Len(b) |-> eventwise_run_ids[b[k][1]]]

----------------------------------------------------------------------------
(* Inputs: the files of one subject *)

\* the trials of one run: slot s of the layout holds a category (or 0 for
\* fixation); a trial starts jit tenths of a second into its slot
RECURSIVE LayoutTrials(_, _, _, _)
LayoutTrials(layout, run, jit, s) ==
    IF s > Len(layout) THEN <<>>
    ELSE IF layout[s] # 0
         THEN <<[cat |-> layout[s], onset |-> (s - 1) * vdc_TR + jit, run |-> run]>>
              \o LayoutTrials(layout, run, jit, s + 1)
         ELSE LayoutTrials(layout, run, jit, s + 1)

\* synthetic BOLD value of voxel v at acquisition t, pattern k
EpiVal(k, t, v) ==
    IF k = 1 THEN t + (v - 1) * (t % 2)
    ELSE (k * t * t + t + (v - 1)) % (k + 1)

Epi(k, T) == [t \in 1..T |-> [v \in 1..NVox |-> Rat(EpiVal(k, t, v))]]

Unset == <<>>

\* the second and third run of a small scenario, derived from the first
OtherLayout(layout, m, run) ==
    IF m = 0 THEN layout
    ELSE IF m = 1 THEN (IF run = 2 THEN [s \in 1..Len(layout) |-> 0] ELSE layout)
    ELSE IF run = 2
         THEN [s \in 1..Len(layout) |->
                 IF layout[s] = 0 THEN 0 ELSE (layout[s] % NCat) + 1]
         ELSE layout

LagSet == {0, vdc_TR, vdc_TR + 7, 3 * vdc_TR, (vdc_n_runs * MaxTRsRun + 2) * vdc_TR}

\* no classification cell has run
CVNotStarted ==
    /\ sp = Unset
    /\ fold = 0
    /\ selected_voxels = Unset
    /\ clf = Unset
    /\ score = Unset
    /\ clf_score = Unset
    /\ iter = 0
    /\ permuted_labels = Unset
    /\ clf_score_i = Unset
    /\ inner_clf = Unset
    /\ C_best = Unset
    /\ parameters = Unset

NotYetComputed ==
    /\ CVNotStarted
    /\ shift_size = 0
    /\ run_ids_raw = Unset
    /\ TRs_run = 0
    /\ stim_label_TR = Unset
    /\ stim_label_TR_shifted = Unset
    /\ bold_data_raw = Unset
    /\ labels_raw = Unset
    /\ bold_normalized_raw = Unset
    /\ bold_data = Unset
    /\ labels = Unset
    /\ run_ids = Unset
    /\ bold_normalized = Unset

Init ==
    /\ pc = "start"
    /\ err = "none"
    /\ warnings = {}
    /\ \E layout \in [1..MaxTRsRun -> 0..NCat], m \in 0..2, jit \in {0, 7} :
         stim_label_allruns =
             LayoutTrials(layout, 1, jit, 1)
             \o LayoutTrials(OtherLayout(layout, m, 2), 2, jit, 1)
             \o LayoutTrials(OtherLayout(layout, m, 3), 3, jit, 1)
    /\ \E k \in 1..NEpi, extra \in 0..1 :
         epi_mask_data_all = Epi(k, vdc_n_runs * MaxTRsRun + extra)
    /\ vdc_hrf_lag \in LagSet
    /\ NotYetComputed

----------------------------------------------------------------------------
(* The load-data cell, one action per statement group *)

\* shift_size, run_ids_raw and TRs_run from the loaded files
LoadSubject ==
    /\ pc = "start"
    /\ shift_size' = vdc_hrf_lag \div vdc_TR
    /\ run_ids_raw' = [i \in 1..Len(stim_label_allruns) |->
                          stim_label_allruns[i].run - 1]
    /\ TRs_run' = Len(epi_mask_data_all) \div vdc_n_runs
    /\ pc' = "loaded"
    /\ UNCHANGED <<cv_vars, err, warnings, vdc_hrf_lag, stim_label_allruns, epi_mask_data_all,
                   stim_label_TR, stim_label_TR_shifted, bold_data_raw,
                   labels_raw, bold_normalized_raw, bold_data, labels,
                   run_ids, bold_normalized>>

\* stim_label_TR = label2TR(stim_label_allruns, vdc_n_runs, vdc_TR, TRs_run)
ConvertTiming ==
    /\ pc = "loaded"
    /\ \A i \in 1..Len(stim_label_allruns) :
         TRIndex(stim_label_allruns[i], vdc_TR, TRs_run) < vdc_n_runs * TRs_run
    /\ stim_label_TR' = label2TR(stim_label_allruns, vdc_n_runs, vdc_TR, TRs_run)
    /\ pc' = "mapped"
    /\ UNCHANGED <<cv_vars, err, warnings, vdc_hrf_lag, stim_label_allruns, epi_mask_data_all,
                   shift_size, run_ids_raw, TRs_run, stim_label_TR_shifted,
                   bold_data_raw, labels_raw, bold_normalized_raw, bold_data,
                   labels, run_ids, bold_normalized>>

\* variant: the lag is handed over in time units, not converted to TRs
ShiftLabels_LagNotConverted ==
    /\ pc = "mapped"
    /\ ShiftValid(stim_label_TR, shift_size)
    /\ stim_label_TR_shifted' = shift_timing(stim_label_TR, vdc_hrf_lag)
    /\ pc' = "shifted"
    /\ UNCHANGED <<cv_vars, err, warnings, vdc_hrf_lag, stim_label_allruns, epi_mask_data_all,
                   shift_size, run_ids_raw, TRs_run, stim_label_TR,
                   bold_data_raw, labels_raw, bold_normalized_raw, bold_data,
                   labels, run_ids, bold_normalized>>

\* variant: the shift is one position too long
ShiftLabels_OffByOne ==
    /\ pc = "mapped"
    /\ ShiftValid(stim_label_TR, shift_size)
    /\ stim_label_TR_shifted' = shift_timing(stim_label_TR, shift_size + 1)
    /\ pc' = "shifted"
    /\ UNCHANGED <<cv_vars, err, warnings, vdc_hrf_lag, stim_label_allruns, epi_mask_data_all,
                   shift_size, run_ids_raw, TRs_run, stim_label_TR,
                   bold_data_raw, labels_raw, bold_normalized_raw, bold_data,
                   labels, run_ids, bold_normalized>>

\* stim_label_TR_shifted = shift_timing(stim_label_TR, shift_size)
ShiftLabels ==
    /\ pc = "mapped"
    /\ ShiftValid(stim_label_TR, shift_size)
    /\ stim_label_TR_shifted' = shift_timing(stim_label_TR, shift_size)
    /\ pc' = "shifted"
    /\ UNCHANGED <<cv_vars, err, warnings, vdc_hrf_lag, stim_label_allruns, epi_mask_data_all,
                   shift_size, run_ids_raw, TRs_run, stim_label_TR,
                   bold_data_raw, labels_raw, bold_normalized_raw, bold_data,
                   labels, run_ids, bold_normalized>>

\* variant: the out-of-range shift is not rejected; every label is shifted
\* out and the cell goes on with an all-sentinel vector
ShiftError_Swallowed ==
    /\ pc = "mapped"
    /\ ~ShiftValid(stim_label_TR, shift_size)
    /\ stim_label_TR_shifted' = [i \in 1..Len(stim_label_TR) |-> Sentinel]
    /\ pc' = "shifted"
    /\ UNCHANGED <<cv_vars, err, warnings, vdc_hrf_lag, stim_label_allruns, epi_mask_data_all,
                   shift_size, run_ids_raw, TRs_run, stim_label_TR,
                   bold_data_raw, labels_raw, bold_normalized_raw, bold_data,
                   labels, run_ids, bold_normalized>>

\* the shifter raises; nothing in the cell catches it
ShiftError ==
    /\ pc = "mapped"
    /\ ~ShiftValid(stim_label_TR, shift_size)
    /\ pc' = "error"
    /\ err' = "shift"
    /\ UNCHANGED <<cv_vars, warnings, vdc_hrf_lag, stim_label_allruns, epi_mask_data_all,
                   shift_size, run_ids_raw, TRs_run, stim_label_TR,
                   stim_label_TR_shifted, bold_data_raw, labels_raw,
                   bold_normalized_raw, bold_data, labels, run_ids,
                   bold_normalized>>

\* variant: the unshifted labels are handed to the reshaper
Reshape_Unshifted ==
    /\ pc = "shifted"
    /\ ReshapeValid(stim_label_TR, epi_mask_data_all)
    /\ bold_data_raw' = reshape_data_rows(stim_label_TR, epi_mask_data_all)
    /\ labels_raw' = reshape_data_labels(stim_label_TR)
    /\ pc' = "reshaped"
    /\ UNCHANGED <<cv_vars, err, warnings, vdc_hrf_lag, stim_label_allruns, epi_mask_data_all,
                   shift_size, run_ids_raw, TRs_run, stim_label_TR,
                   stim_label_TR_shifted, bold_normalized_raw, bold_data,
                   labels, run_ids, bold_normalized>>

\* bold_data_raw, labels_raw = reshape_data(stim_label_TR_shifted, epi_mask_data_all)
Reshape ==
    /\ pc = "shifted"
    /\ ReshapeValid(stim_label_TR_shifted, epi_mask_data_all)
    /\ bold_data_raw' = reshape_data_rows(stim_label_TR_shifted, epi_mask_data_all)
    /\ labels_raw' = reshape_data_labels(stim_label_TR_shifted)
    /\ pc' = "reshaped"
    /\ UNCHANGED <<cv_vars, err, warnings, vdc_hrf_lag, stim_label_allruns, epi_mask_data_all,
                   shift_size, run_ids_raw, TRs_run, stim_label_TR,
                   stim_label_TR_shifted, bold_normalized_raw, bold_data,
                   labels, run_ids, bold_normalized>>

\* the reshaper raises; nothing in the cell catches it
ReshapeError ==
    /\ pc = "shifted"
    /\ ~ReshapeValid(stim_label_TR_shifted, epi_mask_data_all)
    /\ pc' = "error"
    /\ err' = "shape"
    /\ UNCHANGED <<cv_vars, warnings, vdc_hrf_lag, stim_label_allruns, epi_mask_data_all,
                   shift_size, run_ids_raw, TRs_run, stim_label_TR,
                   stim_label_TR_shifted, bold_data_raw, labels_raw,
                   bold_normalized_raw, bold_data, labels, run_ids,
                   bold_normalized>>

\* variant: the label vector is handed over in place of the run ids
NormalizeRaw_ByLabel ==
    /\ pc = "reshaped"
    /\ NormalizeValid(bold_data_raw, run_ids_raw)
    /\ bold_normalized_raw' = normalize(bold_data_raw, labels_raw)
    /\ pc' = "normalized_raw"
    /\ UNCHANGED <<cv_vars, err, warnings, vdc_hrf_lag, stim_label_allruns, epi_mask_data_all,
                   shift_size, run_ids_raw, TRs_run, stim_label_TR,
                   stim_label_TR_shifted, bold_data_raw, labels_raw,
                   bold_data, labels, run_ids, bold_normalized>>

\* bold_normalized_raw = normalize(bold_data_raw, run_ids_raw)
NormalizeRaw ==
    /\ pc = "reshaped"
    /\ NormalizeValid(bold_data_raw, run_ids_raw)
    /\ bold_normalized_raw' = normalize(bold_data_raw, run_ids_raw)
    /\ pc' = "normalized_raw"
    /\ UNCHANGED <<cv_vars, err, warnings, vdc_hrf_lag, stim_label_allruns, epi_mask_data_all,
                   shift_size, run_ids_raw, TRs_run, stim_label_TR,
                   stim_label_TR_shifted, bold_data_raw, labels_raw,
                   bold_data, labels, run_ids, bold_normalized>>

\* variant: the mismatch is not rejected; the run ids beyond the last row
\* are ignored and the cell goes on
NormalizeError_Truncated ==
    /\ pc = "reshaped"
    /\ ~NormalizeValid(bold_data_raw, run_ids_raw)
    /\ Len(bold_data_raw) < Len(run_ids_raw)
    /\ bold_normalized_raw' =
           normalize(bold_data_raw, SubSeq(run_ids_raw, 1, Len(bold_data_raw)))
    /\ pc' = "normalized_raw"
    /\ UNCHANGED <<cv_vars, err, warnings, vdc_hrf_lag, stim_label_allruns, epi_mask_data_all,
                   shift_size, run_ids_raw, TRs_run, stim_label_TR,
                   stim_label_TR_shifted, bold_data_raw, labels_raw,
                   bold_data, labels, run_ids, bold_normalized>>

\* the normalizer raises; nothing in the cell catches it
NormalizeError ==
    /\ pc = "reshaped"
    /\ ~NormalizeValid(bold_data_raw, run_ids_raw)
    /\ pc' = "error"
    /\ err' = "shape"
    /\ UNCHANGED <<cv_vars, warnings, vdc_hrf_lag, stim_label_allruns, epi_mask_data_all,
                   shift_size, run_ids_raw, TRs_run, stim_label_TR,
                   stim_label_TR_shifted, bold_data_raw, labels_raw,
                   bold_normalized_raw, bold_data, labels, run_ids,
                   bold_normalized>>

\* variant: label vector and run-id vector change places
Downsample_SwappedArgs ==
    /\ pc = "normalized_raw"
    /\ Len(bold_data_raw) = Len(labels_raw)
    /\ Len(bold_data_raw) = Len(run_ids_raw)
    /\ bold_data' = blockwise_data(bold_data_raw, run_ids_raw, labels_raw)
    /\ labels' = blockwise_labels(run_ids_raw, labels_raw)
    /\ run_ids' = blockwise_run_ids(run_ids_raw, labels_raw)
    /\ pc' = "sampled"
    /\ UNCHANGED <<cv_vars, err, warnings, vdc_hrf_lag, stim_label_allruns, epi_mask_data_all,
                   shift_size, run_ids_raw, TRs_run, stim_label_TR,
                   stim_label_TR_shifted, bold_data_raw, labels_raw,
                   bold_normalized_raw, bold_normalized>>

\* variant: the run ids play no part in the grouping (the label vector is
\* handed over twice); the run id kept is that of the first row of a block
Downsample_IgnoreRuns ==
    /\ pc = "normalized_raw"
    /\ Len(bold_data_raw) = Len(labels_raw)
    /\ Len(bold_data_raw) = Len(run_ids_raw)
    /\ bold_data' = blockwise_data(bold_data_raw, labels_raw, labels_raw)
    /\ labels' = blockwise_labels(labels_raw, labels_raw)
    /\ run_ids' = [k \in 1..Len(Blocks(labels_raw, labels_raw, 1)) |->
                      run_ids_raw[Blocks(labels_raw, labels_raw, 1)[k][1]]]
    /\ pc' = "sampled"
    /\ UNCHANGED <<cv_vars, err, warnings, vdc_hrf_lag, stim_label_allruns, epi_mask_data_all,
                   shift_size, run_ids_raw, TRs_run, stim_label_TR,
                   stim_label_TR_shifted, bold_data_raw, labels_raw,
                   bold_normalized_raw, bold_normalized>>

\* bold_data, labels, run_ids =
\*     blockwise_sampling(bold_data_raw, labels_raw, run_ids_raw)
Downsample ==
    /\ pc = "normalized_raw"
    /\ Len(bold_data_raw) = Len(labels_raw)
    /\ Len(bold_data_raw) = Len(run_ids_raw)
    /\ bold_data' = blockwise_data(bold_data_raw, labels_raw, run_ids_raw)
    /\ labels' = blockwise_labels(labels_raw, run_ids_raw)
    /\ run_ids' = blockwise_run_ids(labels_raw, run_ids_raw)
    /\ pc' = "sampled"
    /\ UNCHANGED <<cv_vars, err, warnings, vdc_hrf_lag, stim_label_allruns, epi_mask_data_all,
                   shift_size, run_ids_raw, TRs_run, stim_label_TR,
                   stim_label_TR_shifted, bold_data_raw, labels_raw,
                   bold_normalized_raw, bold_normalized>>

\* bold_normalized = normalize(bold_data, run_ids)
NormalizeBlocks ==
    /\ pc = "sampled"
    /\ NormalizeValid(bold_data, run_ids)
    /\ bold_normalized' = normalize(bold_data, run_ids)
    /\ pc' = "done"
    /\ UNCHANGED <<cv_vars, err, warnings, vdc_hrf_lag, stim_label_allruns, epi_mask_data_all,
                   shift_size, run_ids_raw, TRs_run, stim_label_TR,
                   stim_label_TR_shifted, bold_data_raw, labels_raw,
                   bold_normalized_raw, bold_data, labels, run_ids>>

Next ==
    \/ LoadSubject
    \/ ConvertTiming
    \/ ShiftLabels
    \/ ShiftError
    \/ Reshape
    \/ ReshapeError
    \/ NormalizeRaw
    \/ NormalizeError
    \/ Downsample
    \/ NormalizeBlocks

Spec == Init /\ [][Next]_vars

----------------------------------------------------------------------------
(* The temporal shifter and the reshaper on every TR-label vector *)

\* all sequences over S of length 0..n
SeqsUpTo(S, n) == UNION {[1..m -> S] : m \in 0..n}

InitShift ==
    /\ CVNotStarted
    /\ pc = "mapped"
    /\ err = "none"
    /\ warnings = {}
    /\ stim_label_allruns = Unset
    /\ run_ids_raw = Unset
    /\ stim_label_TR \in SeqsUpTo(0..NCat, MaxLen)
    /\ shift_size \in 0..(MaxLen + 1)
    /\ vdc_hrf_lag = shift_size * vdc_TR
    /\ \E k \in 1..NEpi, extra \in 0..1 :
         epi_mask_data_all = Epi(k, Len(stim_label_TR) + extra)
    /\ TRs_run = Len(epi_mask_data_all) \div vdc_n_runs
    /\ stim_label_TR_shifted = Unset
    /\ bold_data_raw = Unset
    /\ labels_raw = Unset
    /\ bold_normalized_raw = Unset
    /\ bold_data = Unset
    /\ labels = Unset
    /\ run_ids = Unset
    /\ bold_normalized = Unset

NextShift == ShiftLabels \/ ShiftError \/ Reshape \/ ReshapeError

SpecShift == InitShift /\ [][NextShift]_vars

\* the k-th smallest element of a finite set of integers
KthOf(N, k) == CHOOSE i \in N : Cardinality({j \in N : j <= i}) = k

Labelled(v) == {i \in 1..Len(v) : v[i] # Sentinel}

\* C2: the reshaper returns exactly the rows whose label is not the
\* sentinel, each once and in their original temporal order (the k-th
\* output row is the k-th labelled acquisition), and the k-th output label
\* is the label of the k-th returned row.
ReshapeKeepsLabelledRowsInOrder ==
    (pc = "reshaped") =>
        LET N == Labelled(stim_label_TR_shifted)
        IN  /\ Len(bold_data_raw) = Cardinality(N)
            /\ Len(labels_raw) = Cardinality(N)
            /\ \A k \in 1..Cardinality(N) :
                 /\ bold_data_raw[k] = epi_mask_data_all[KthOf(N, k)]
                 /\ labels_raw[k] = stim_label_TR_shifted[KthOf(N, k)]
                 /\ labels_raw[k] # Sentinel

\* a rest scan is dropped in front of two labelled scans that are kept
ReshapeWitness ==
    /\ pc = "reshaped"
    /\ Len(stim_label_TR_shifted) >= 3
    /\ stim_label_TR_shifted[1] = Sentinel
    /\ Len(bold_data_raw) >= 2
    /\ bold_data_raw[1] # bold_data_raw[2]

\* C5, as stated: for 0 <= s <= n the shifter returns a vector of the same
\* length n in which every label has moved forward by s positions and the
\* trailing s positions hold the sentinel.
ShiftLeavesTrailingSentinel ==
    (pc \in {"shifted", "reshaped"} /\ shift_size <= Len(stim_label_TR)) =>
        LET n == Len(stim_label_TR)
        IN  /\ Len(stim_label_TR_shifted) = n
            /\ \A i \in 1..(n - shift_size) :
                 stim_label_TR_shifted[i + shift_size] = stim_label_TR[i]
            /\ \A i \in (n - shift_size + 1)..n :
                 stim_label_TR_shifted[i] = Sentinel

\* C5, amended: for 0 <= s <= n the shifter returns a vector of the same
\* length n in which every label has moved forward by s positions (the
\* label of position i is at position i + s, the last s labels are dropped)
\* and the leading s positions, vacated by the shift, hold the sentinel.
ShiftMovesLabels ==
    (pc \in {"shifted", "reshaped"} /\ shift_size <= Len(stim_label_TR)) =>
        LET n == Len(stim_label_TR)
        IN  /\ Len(stim_label_TR_shifted) = n
            /\ \A i \in 1..(n - shift_size) :
                 stim_label_TR_shifted[i + shift_size] = stim_label_TR[i]
            /\ \A i \in 1..shift_size :
                 stim_label_TR_shifted[i] = Sentinel

\* a proper shift (0 < s < n) that moves the label of the first position
\* into a trailing position and vacates the first position
ShiftWitness ==
    /\ pc = "shifted"
    /\ shift_size >= 1
    /\ shift_size < Len(stim_label_TR)
    /\ 2 * shift_size >= Len(stim_label_TR)
    /\ stim_label_TR[1] # Sentinel
    /\ stim_label_TR_shifted[1] = Sentinel
    /\ stim_label_TR_shifted[1 + shift_size] = stim_label_TR[1]

\* C7: with shift count 0 the shifter is the identity.
ShiftZeroIsIdentity ==
    (pc \in {"shifted", "reshaped"} /\ shift_size = 0) =>
        stim_label_TR_shifted = stim_label_TR

ShiftZeroWitness ==
    /\ pc = "shifted"
    /\ shift_size = 0
    /\ Len(stim_label_TR) >= 2
    /\ stim_label_TR[1] # Sentinel
    /\ stim_label_TR[2] = Sentinel

\* C6: a shift count above the length of the TR-label vector makes the
\* shifter fail: the cell stops in the error state, no shifted vector (and
\* nothing after it) is produced, and nothing runs once an error is raised.
ShiftOutOfRangeIsFatal ==
    [][ /\ pc # "error"
        /\ (pc = "mapped" /\ shift_size > Len(stim_label_TR)) =>
              /\ pc' = "error"
              /\ err' = "shift"
              /\ stim_label_TR_shifted' = Unset
              /\ bold_data_raw' = Unset
              /\ bold_data' = Unset ]_vars

ShiftOutOfRangeWitness ==
    /\ pc = "error"
    /\ err = "shift"
    /\ shift_size > Len(stim_label_TR)
    /\ \E i \in 1..Len(stim_label_TR) : stim_label_TR[i] # Sentinel

----------------------------------------------------------------------------
(* The normalizer on every small feature matrix *)

\* run ids as the cell builds them: one per row, runs in ascending order
RunIdVectors(n) ==
    {g \in [1..n -> 0..(vdc_n_runs - 1)] : \A i \in 1..(n - 1) : g[i] <= g[i + 1]}

\* a feature matrix whose first voxel column is col
MatrixOf(col) ==
    [i \in 1..Len(col) |->
        [v \in 1..NVox |-> Rat(IF v = 1 THEN col[i] ELSE EpiVal(v, i, v))]]

InitNormalize ==
    /\ CVNotStarted
    /\ pc = "reshaped"
    /\ err = "none"
    /\ warnings = {}
    /\ vdc_hrf_lag = 0
    /\ shift_size = 0
    /\ TRs_run = 0
    /\ stim_label_allruns = Unset
    /\ epi_mask_data_all = Unset
    /\ stim_label_TR = Unset
    /\ stim_label_TR_shifted = Unset
    /\ \E n \in 1..MaxRows :
         /\ \E col \in [1..n -> 0..2] : bold_data_raw = MatrixOf(col)
         /\ run_ids_raw \in RunIdVectors(n)
         /\ labels_raw = [i \in 1..n |-> 1]
    /\ bold_normalized_raw = Unset
    /\ bold_data = Unset
    /\ labels = Unset
    /\ run_ids = Unset
    /\ bold_normalized = Unset

NextNormalize == NormalizeRaw

SpecNormalize == InitNormalize /\ [][NextNormalize]_vars

\* the matrices that agree with X on the rows of run r and differ on the
\* rows of the other runs
OtherRunsChanged(X, g, r) ==
    {[i \in 1..Len(X) |->
        IF g[i] = r THEN X[i] ELSE [v \in 1..NVox |-> Rat(p[i] + v)]]
     : p \in [1..Len(X) -> {0, 3}]}

\* C1: run isolation of the normalizer: the output on the rows of a run
\* is the same for every input that agrees on the rows of that run,
\* however the rows of the other runs differ.
NormalizeRunIsolation ==
    (pc = "normalized_raw") =>
        \A r \in 0..(vdc_n_runs - 1) :
            \A X2 \in OtherRunsChanged(bold_data_raw, run_ids_raw, r) :
                \A i \in 1..Len(run_ids_raw) :
                    (run_ids_raw[i] = r) =>
                        normalize(X2, run_ids_raw)[i] = bold_normalized_raw[i]

\* two runs, one of them with rows that differ (so its z-scores are not
\* all zero)
NormalizeRunIsolationWitness ==
    /\ pc = "normalized_raw"
    /\ Len(run_ids_raw) >= 3
    /\ run_ids_raw[1] # run_ids_raw[Len(run_ids_raw)]
    /\ bold_normalized_raw[1] # bold_normalized_raw[2]
    /\ run_ids_raw[1] = run_ids_raw[2]

----------------------------------------------------------------------------
(* The blockwise sampler on every small labelled matrix *)

InitSample ==
    /\ CVNotStarted
    /\ pc = "normalized_raw"
    /\ err = "none"
    /\ warnings = {}
    /\ vdc_hrf_lag = 0
    /\ shift_size = 0
    /\ TRs_run = 0
    /\ stim_label_allruns = Unset
    /\ epi_mask_data_all = Unset
    /\ stim_label_TR = Unset
    /\ stim_label_TR_shifted = Unset
    /\ \E n \in 1..MaxRows :
         /\ \E k \in 1..NEpi : bold_data_raw = Epi(k, n)
         /\ run_ids_raw \in RunIdVectors(n)
         /\ labels_raw \in [1..n -> 1..NCat]
    /\ bold_normalized_raw = normalize(bold_data_raw, run_ids_raw)
    /\ bold_data = Unset
    /\ labels = Unset
    /\ run_ids = Unset
    /\ bold_normalized = Unset

NextSample == Downsample \/ NormalizeBlocks

SpecSample == InitSample /\ [][NextSample]_vars

\* row i starts a group: the (label, run id) pair differs from the row before
StartsGroup(i) ==
    \/ i = 1
    \/ labels_raw[i] # labels_raw[i - 1]
    \/ run_ids_raw[i] # run_ids_raw[i - 1]

GroupStarts == {i \in 1..Len(labels_raw) : StartsGroup(i)}

GroupFirst(k) == KthOf(GroupStarts, k)

GroupLast(k) ==
    IF k = Cardinality(GroupStarts) THEN Len(labels_raw)
    ELSE KthOf(GroupStarts, k + 1) - 1

\* the rational a (lowest terms) is the mean of the rationals xs
IsMeanOf(a, xs) ==
    LET D == CommonDen(xs)
        S == IntSum([k \in 1..Len(xs) |-> xs[k][1] * (D \div xs[k][2])])
    IN  /\ a[2] > 0
        /\ GCD(Abs(a[1]), a[2]) = 1
        /\ a[1] * Len(xs) * D = a[2] * S

\* C3: the sampler returns three sequences of equal length, one entry per
\* maximal contiguous group of identical (label, run id) pairs; the k-th
\* entry is the average of the rows of the k-th group and carries that
\* group's label and run id.
SamplerOneEntryPerGroup ==
    (pc \in {"sampled", "done"}) =>
        LET nb == Cardinality(GroupStarts)
        IN  /\ Len(bold_data) = nb
            /\ Len(labels) = nb
            /\ Len(run_ids) = nb
            /\ \A k \in 1..nb :
                 /\ labels[k] = labels_raw[GroupFirst(k)]
                 /\ run_ids[k] = run_ids_raw[GroupFirst(k)]
                 /\ \A v \in 1..NVox :
                      IsMeanOf(bold_data[k][v],
                               [j \in 1..(GroupLast(k) - GroupFirst(k) + 1) |->
                                   bold_data_raw[GroupFirst(k) + j - 1][v]])

\* a group of two rows with different values, followed by another group
SamplerWitness ==
    /\ pc = "sampled"
    /\ Len(labels_raw) >= 3
    /\ ~StartsGroup(2)
    /\ StartsGroup(3)
    /\ bold_data_raw[1] # bold_data_raw[2]
    /\ Len(bold_data) >= 2

\* C4: no block spans a run boundary: all rows averaged into one output
\* block carry the run id of that block, also when a run ends and the
\* next run starts with the same category.
NoBlockSpansRuns ==
    (pc \in {"sampled", "done"}) =>
        LET b == Blocks(labels_raw, run_ids_raw, 1)
        IN  /\ Len(bold_data) = Len(b)
            /\ Len(run_ids) = Len(b)
            /\ \A k \in 1..Len(b) :
                 /\ bold_data[k] =
                        MeanRows(SubSeq(bold_data_raw, b[k][1], b[k][2]))
                 /\ \A i \in b[k][1]..b[k][2] : run_ids_raw[i] = run_ids[k]

\* the same label on both sides of a run boundary
NoBlockSpansRunsWitness ==
    /\ pc = "sampled"
    /\ \E i \in 1..(Len(labels_raw) - 1) :
         /\ labels_raw[i] = labels_raw[i + 1]
         /\ run_ids_raw[i] # run_ids_raw[i + 1]
         /\ bold_data_raw[i] # bold_data_raw[i + 1]

\* row i is a group of its own
SingletonGroup(i) ==
    /\ StartsGroup(i)
    /\ (i = Len(labels_raw) \/ StartsGroup(i + 1))

\* C8: a block of length 1 is its own average: the output row of a
\* singleton group is the input row, unchanged.
SingletonBlockUnchanged ==
    (pc \in {"sampled", "done"}) =>
        \A i \in 1..Len(labels_raw) :
            SingletonGroup(i) =>
                bold_data[Cardinality({j \in GroupStarts : j <= i})] = bold_data_raw[i]

\* a singleton group with a non-zero row after a group of two rows
SingletonBlockWitness ==
    /\ pc = "sampled"
    /\ Len(labels_raw) >= 3
    /\ ~StartsGroup(2)
    /\ SingletonGroup(3)
    /\ bold_data_raw[3] # [v \in 1..NVox |-> Rat(0)]

----------------------------------------------------------------------------
(* The label-to-index mapper on small label matrices *)

\* candidate onsets of a run of TRs acquisitions: on a sample boundary, or
\* 0.8 s after it
OnsetCandidates(TRs) == {s * vdc_TR + j : s \in 0..(TRs - 1), j \in {0, 8}}

\* the elements of a finite set of integers in ascending order
SortedSeq(N) == [k \in 1..Cardinality(N) |-> KthOf(N, k)]

\* one trial per onset of the set, categories cycling from c
RunTrials(onsets, run, c) ==
    [k \in 1..Cardinality(onsets) |->
        [cat |-> ((k + c) % NCat) + 1, onset |-> SortedSeq(onsets)[k], run |-> run]]

\* the loaded files: any number of acquisitions from one per run up to one
\* more than vdc_n_runs * MaxTRsRun, a multiple of the run count or not, and
\* trials with onsets inside the runs
InitMap ==
    /\ pc = "start"
    /\ err = "none"
    /\ warnings = {}
    /\ vdc_hrf_lag = 0
    /\ \E A \in vdc_n_runs..(vdc_n_runs * MaxTRsRun + 1) :
         /\ epi_mask_data_all = Epi(1, A)
         /\ \E o1 \in SUBSET OnsetCandidates(A \div vdc_n_runs),
                o2 \in SUBSET OnsetCandidates(A \div vdc_n_runs),
                c \in 0..(NCat - 1) :
               stim_label_allruns =
                   RunTrials(o1, 1, c) \o RunTrials(o2, 2, c + 1)
                       \o RunTrials(o1, 3, c + 2)
    /\ NotYetComputed

NextMap == LoadSubject \/ ConvertTiming

SpecMap == InitMap /\ [][NextMap]_vars

\* the trials of run r (1-based) whose onset lies in its sampling interval t
TrialsIn(r, t) ==
    {i \in 1..Len(stim_label_allruns) :
        /\ stim_label_allruns[i].run = r
        /\ t * vdc_TR <= stim_label_allruns[i].onset
        /\ stim_label_allruns[i].onset < (t + 1) * vdc_TR}

\* C9: the mapper puts every trial at the acquisition of the sampling
\* interval that encloses its onset, within its run: the vector has one
\* entry per acquisition, an entry holds the category of the (last) trial
\* whose onset lies in that interval and the sentinel when there is none;
\* an onset on a sample boundary belongs to the interval it starts, and two
\* trials of a run one sampling interval apart get consecutive indices.
MapperUsesEnclosingInterval ==
    (pc = "mapped") =>
        /\ Len(stim_label_TR) = vdc_n_runs * TRs_run
        /\ Len(stim_label_TR) = Len(epi_mask_data_all)
        /\ \A r \in 1..vdc_n_runs, t \in 0..(TRs_run - 1) :
             LET S == TrialsIn(r, t)
                 last == CHOOSE i \in S : \A j \in S : j <= i
             IN  stim_label_TR[(r - 1) * TRs_run + t + 1] =
                     IF S = {} THEN Sentinel ELSE stim_label_allruns[last].cat
        /\ \A i \in 1..Len(stim_label_allruns) :
             \A t \in 0..(TRs_run - 1) :
                 (i \in TrialsIn(stim_label_allruns[i].run, t)) =>
                     TRIndex(stim_label_allruns[i], vdc_TR, TRs_run)
                         = (stim_label_allruns[i].run - 1) * TRs_run + t
        /\ \A i, j \in 1..Len(stim_label_allruns) :
             (/\ stim_label_allruns[i].run = stim_label_allruns[j].run
              /\ stim_label_allruns[j].onset = stim_label_allruns[i].onset + vdc_TR)
             => TRIndex(stim_label_allruns[j], vdc_TR, TRs_run)
                    = TRIndex(stim_label_allruns[i], vdc_TR, TRs_run) + 1

----------------------------------------------------------------------------
(* End to end: the localizer design *)

\* blocks of each category per run
E2E_Blocks == 5
\* trials per block, one per TR
E2E_Trials == 10
\* fixation between blocks, in TRs
E2E_Rest == 10
\* acquisitions per run
E2E_TRsRun == 310

E2E_BlocksPerRun == E2E_Blocks * NCat

\* fixation in front of the first block of a run, in TRs
E2E_LeadIn ==
    (E2E_TRsRun - E2E_BlocksPerRun * (E2E_Trials + E2E_Rest)) \div 2

\* category of block b (1-based) of a run, for three orders of the blocks:
\* 1 cycles through the categories; 2 repeats a category once at the start
\* of the run; 3 shows all blocks of a category one after the other
E2E_Category(order, b) ==
    IF order = 1 THEN ((b - 1) % NCat) + 1
    ELSE IF order = 2
         THEN (IF b <= 2 THEN 1
               ELSE IF b <= 6 THEN ((b - 1) % 2) + 2
               ELSE ((b - 1) % NCat) + 1)
    ELSE ((b - 1) \div E2E_Blocks) + 1

E2E_RunTrials(order, run) ==
    [k \in 1..(E2E_BlocksPerRun * E2E_Trials) |->
        LET b == ((k - 1) \div E2E_Trials) + 1
            j == (k - 1) % E2E_Trials
        IN  [cat   |-> E2E_Category(order, b),
             onset |-> (E2E_LeadIn + (b - 1) * (E2E_Trials + E2E_Rest) + j) * vdc_TR,
             run   |-> run]]

InitE2E ==
    /\ pc = "start"
    /\ err = "none"
    /\ warnings = {}
    /\ \E order \in 1..3 :
         stim_label_allruns =
             E2E_RunTrials(order, 1) \o E2E_RunTrials(order, 2) \o E2E_RunTrials(order, 3)
    /\ \E k \in 2..(NEpi + 1) :
         epi_mask_data_all = Epi(k, vdc_n_runs * E2E_TRsRun)
    /\ vdc_hrf_lag \in {0, vdc_TR, 2 * vdc_TR, 3 * vdc_TR}
    /\ NotYetComputed

NextE2E ==
    \/ LoadSubject
    \/ ConvertTiming
    \/ ShiftLabels
    \/ Reshape
    \/ NormalizeRaw
    \/ Downsample
    \/ NormalizeBlocks

SpecE2E == InitE2E /\ [][NextE2E]_vars

\* rows of bold_data_raw that went into output block k
E2E_BlockRows(k) ==
    LET b == Blocks(labels_raw, run_ids_raw, 1) IN b[k][1]..b[k][2]

\* C10: for 3 runs with 5 blocks of each of 3 categories and 10 trials per
\* block at 1.5 s spacing, the cell yields exactly 45 blocks; the run id of
\* every block is the run of the trials it was built from, and no block
\* crosses a run boundary.
E2EYields45Blocks ==
    (pc = "done") =>
        /\ Len(bold_data) = vdc_n_runs * E2E_Blocks * NCat
        /\ Len(labels) = Len(bold_data)
        /\ Len(run_ids) = Len(bold_data)
        /\ \A k \in 1..Len(run_ids) :
             \A i \in E2E_BlockRows(k) :
                 run_ids[k] = stim_label_allruns[i].run - 1

----------------------------------------------------------------------------
(* Shape mismatches in the load-data cell *)

\* C11: a shape mismatch is fatal.  When the feature matrix handed to a
\* stage has a row count that differs from the length of the label vector
\* (reshaper) or of the run-id vector (normalizer) passed with it, the
\* stage stops the cell with a shape error and leaves no output of its own
\* or of a later stage; once an error is raised nothing runs any more; the
\* sampler and the second normalizer are only reached with matching shapes.
ShapeMismatchIsFatal ==
    [][ /\ pc # "error"
        /\ (pc = "shifted"
               /\ Len(stim_label_TR_shifted) # Len(epi_mask_data_all)) =>
              /\ pc' = "error"
              /\ err' = "shape"
              /\ bold_data_raw' = Unset
              /\ labels_raw' = Unset
              /\ bold_normalized_raw' = Unset
              /\ bold_data' = Unset
              /\ bold_normalized' = Unset
        /\ (pc = "reshaped" /\ Len(bold_data_raw) # Len(run_ids_raw)) =>
              /\ pc' = "error"
              /\ err' = "shape"
              /\ bold_normalized_raw' = Unset
              /\ bold_data' = Unset
              /\ labels' = Unset
              /\ run_ids' = Unset
              /\ bold_normalized' = Unset
        /\ (pc = "normalized_raw") =>
              /\ Len(bold_data_raw) = Len(labels_raw)
              /\ Len(bold_data_raw) = Len(run_ids_raw)
        /\ (pc = "sampled") =>
              /\ Len(bold_data) = Len(labels)
              /\ Len(bold_data) = Len(run_ids) ]_vars

\* the normalizer was handed fewer rows than run ids and stopped the cell
ShapeMismatchWitness ==
    /\ pc = "error"
    /\ err = "shape"
    /\ labels_raw # Unset
    /\ Len(bold_data_raw) >= 1
    /\ Len(bold_data_raw) < Len(run_ids_raw)
    /\ bold_normalized_raw = Unset

----------------------------------------------------------------------------
(* Collaborator services of the classification cells *)

SetOf(seq) == {seq[i] : i \in 1..Len(seq)}

\* the rows idx of a matrix or vector, in the order of idx (X[idx, :])
Rows(X, idx) == [k \in 1..Len(idx) |-> X[idx[k]]]

\* all row indices of a matrix or vector
AllRows(X) == [i \in 1..Len(X) |-> i]

\* PredefinedSplit: the fold values, in ascending order; -1 marks a sample
\* that is never tested
UniqueFolds(test_fold) == SetOf(test_fold) \ {-1}

\* the samples outside fold f, front to back
RECURSIVE RowsNotOfRunRange(_, _, _, _)
RowsNotOfRunRange(ids, r, lo, hi) ==
    IF lo > hi THEN <<>>
    ELSE IF lo = hi THEN (IF ids[lo] # r THEN <<lo>> ELSE <<>>)
    ELSE LET mid == (lo + hi) \div 2
         IN  RowsNotOfRunRange(ids, r, lo, mid)
             \o RowsNotOfRunRange(ids, r, mid + 1, hi)

\* PredefinedSplit(test_fold).split(): one pair per fold value in ascending
\* order; the test indices are the samples of the fold, the train indices
\* all other samples
PredefinedSplit_split(test_fold) ==
    [k \in 1..Cardinality(UniqueFolds(test_fold)) |->
        LET f == KthOf(UniqueFolds(test_fold), k)
        IN  [train |-> RowsNotOfRunRange(test_fold, f, 1, Len(test_fold)),
             test  |-> RowsOfRun(test_fold, f)]]

\* SelectKBest(f_classif, k = 100)
SelectK == 100

Min(a, b) == IF a <= b THEN a ELSE b

\* SelectKBest(...).fit(X, y): the fit keeps the voxels it selected; with
\* no more than k voxels every voxel is selected.  rows names the rows of
\* the dataset that X and y were taken from.
SelectKBest_fit(rows, X, y) ==
    [rows |-> rows, X |-> X, y |-> y, support |-> 1..Min(SelectK, NVox)]

\* selected_voxels.transform(X): the selected columns of X
SelectKBest_transform(sel, X) ==
    [i \in 1..Len(X) |->
        [j \in 1..Cardinality(sel.support) |-> X[i][KthOf(sel.support, j)]]]

\* the most frequent label of y, the smallest one among equals
Majority(y) ==
    CHOOSE c \in SetOf(y) :
        \A d \in SetOf(y) :
            LET nc == Cardinality({i \in 1..Len(y) : y[i] = c})
                nd == Cardinality({i \in 1..Len(y) : y[i] = d})
            IN  nc > nd \/ (nc = nd /\ c <= d)

\* a classifier needs samples of at least two classes
ClassifierFitValid(X, y) == Cardinality(SetOf(y)) >= 2

\* classifier.fit(X, y): C is the regularization parameter in units of
\* 1e-4.  rows names the rows of the dataset that X and y were taken from.
ClassifierFit(rows, X, y, C) == [rows |-> rows, X |-> X, y |-> y, C |-> C]

\* the prediction of a fitted classifier for one sample.  With C >= 1 the
\* classifier reproduces the label of a sample it was fitted on; a strongly
\* regularized classifier, or one that has not seen the sample, answers
\* with the most frequent class of its training labels.
Predict(m, x) ==
    LET seen == {i \in 1..Len(m.X) : m.X[i] = x}
    IN  IF m.C >= 10000 /\ seen # {}
        THEN m.y[CHOOSE i \in seen : \A j \in seen : i <= j]
        ELSE Majority(m.y)

\* clf.score(X, y): the fraction of samples predicted correctly
Score(m, X, y) ==
    RatReduce(Cardinality({i \in 1..Len(X) : Predict(m, X[i]) = y[i]}), Len(X))

----------------------------------------------------------------------------
(* Section 2.1: voxel selection on all the data (the double-dipping cell) *)

\* variant: the folds are taken from the labels instead of the run ids
DDBegin_SplitOnLabels ==
    /\ pc = "done"
    /\ sp' = PredefinedSplit_split(labels)
    /\ clf_score' = <<>>
    /\ fold' = 0
    /\ pc' = "dd_loop"
    /\ UNCHANGED <<err, warnings, vdc_hrf_lag, stim_label_allruns, epi_mask_data_all,
                   shift_size, run_ids_raw, TRs_run, stim_label_TR,
                   stim_label_TR_shifted, bold_data_raw, labels_raw,
                   bold_normalized_raw, bold_data, labels, run_ids,
                   bold_normalized, selected_voxels, clf, score, iter,
                   permuted_labels, clf_score_i, inner_clf, C_best,
                   parameters>>

\* sp = PredefinedSplit(run_ids); clf_score = []
DDBegin ==
    /\ pc = "done"
    /\ sp' = PredefinedSplit_split(run_ids)
    /\ clf_score' = <<>>
    /\ fold' = 0
    /\ pc' = "dd_loop"
    /\ UNCHANGED <<err, warnings, vdc_hrf_lag, stim_label_allruns, epi_mask_data_all,
                   shift_size, run_ids_raw, TRs_run, stim_label_TR,
                   stim_label_TR_shifted, bold_data_raw, labels_raw,
                   bold_normalized_raw, bold_data, labels, run_ids,
                   bold_normalized, selected_voxels, clf, score, iter,
                   permuted_labels, clf_score_i, inner_clf, C_best,
                   parameters>>

\* variant: the voxel selection is fit on the training rows of the fold
DDFold_SelectOnTrain ==
    /\ pc = "dd_loop"
    /\ fold < Len(sp)
    /\ LET train      == sp[fold + 1].train
           test       == sp[fold + 1].test
           train_data == Rows(bold_normalized, train)
           test_data  == Rows(bold_normalized, test)
           sel        == SelectKBest_fit(train, train_data, Rows(labels, train))
           fitted     == ClassifierFit(train,
                                       SelectKBest_transform(sel, train_data),
                                       Rows(labels, train), 10000)
       IN  /\ ClassifierFitValid(train_data, Rows(labels, train))
           /\ selected_voxels' = sel
           /\ clf' = fitted
           /\ score' = [rows  |-> test,
                        value |-> Score(fitted,
                                        SelectKBest_transform(sel, test_data),
                                        Rows(labels, test))]
           /\ clf_score' = Append(clf_score, score'.value)
    /\ fold' = fold + 1
    /\ UNCHANGED <<load_vars, sp, iter, permuted_labels, clf_score_i,
                   inner_clf, C_best,
                   parameters>>

\* one pass through the loop body: selection on all rows, the classifier
\* fit on the training rows and scored on the test rows
DDFold ==
    /\ pc = "dd_loop"
    /\ fold < Len(sp)
    /\ LET train      == sp[fold + 1].train
           test       == sp[fold + 1].test
           sel        == SelectKBest_fit(AllRows(bold_normalized),
                                         bold_normalized, labels)
           train_data == Rows(bold_normalized, train)
           test_data  == Rows(bold_normalized, test)
           fitted     == ClassifierFit(train,
                                       SelectKBest_transform(sel, train_data),
                                       Rows(labels, train), 10000)
       IN  /\ ClassifierFitValid(train_data, Rows(labels, train))
           /\ selected_voxels' = sel
           /\ clf' = fitted
           /\ score' = [rows  |-> test,
                        value |-> Score(fitted,
                                        SelectKBest_transform(sel, test_data),
                                        Rows(labels, test))]
           /\ clf_score' = Append(clf_score, score'.value)
    /\ fold' = fold + 1
    /\ UNCHANGED <<load_vars, sp, iter, permuted_labels, clf_score_i,
                   inner_clf, C_best,
                   parameters>>

\* classifier.fit raises: the training rows hold fewer than two classes
DDFoldError ==
    /\ pc = "dd_loop"
    /\ fold < Len(sp)
    /\ ~ClassifierFitValid(Rows(bold_normalized, sp[fold + 1].train),
                           Rows(labels, sp[fold + 1].train))
    /\ selected_voxels' = SelectKBest_fit(AllRows(bold_normalized),
                                          bold_normalized, labels)
    /\ pc' = "error"
    /\ err' = "fit"
    /\ UNCHANGED <<warnings, vdc_hrf_lag, stim_label_allruns, epi_mask_data_all,
                   shift_size, run_ids_raw, TRs_run, stim_label_TR,
                   stim_label_TR_shifted, bold_data_raw, labels_raw,
                   bold_normalized_raw, bold_data, labels, run_ids,
                   bold_normalized, sp, fold, clf, score, clf_score, iter,
                   permuted_labels, clf_score_i, inner_clf, C_best,
                   parameters>>

\* the loop is over; the mean accuracy is printed
DDEnd ==
    /\ pc = "dd_loop"
    /\ fold = Len(sp)
    /\ pc' = "dd_done"
    /\ UNCHANGED <<err, warnings, vdc_hrf_lag, stim_label_allruns, epi_mask_data_all,
                   shift_size, run_ids_raw, TRs_run, stim_label_TR,
                   stim_label_TR_shifted, bold_data_raw, labels_raw,
                   bold_normalized_raw, bold_data, labels, run_ids,
                   bold_normalized, cv_vars>>

\* the blockwise data of a subject as the load-data cell leaves them: up to
\* m blocks, consecutive blocks differ in label or run
InitBlocksUpTo(m) ==
    /\ pc = "done"
    /\ err = "none"
    /\ warnings = {}
    /\ vdc_hrf_lag = 0
    /\ shift_size = 0
    /\ TRs_run = 0
    /\ stim_label_allruns = Unset
    /\ epi_mask_data_all = Unset
    /\ stim_label_TR = Unset
    /\ stim_label_TR_shifted = Unset
    /\ run_ids_raw = Unset
    /\ bold_data_raw = Unset
    /\ labels_raw = Unset
    /\ bold_normalized_raw = Unset
    /\ \E n \in 1..m :
         /\ \E k \in 1..NEpi : bold_data = Epi(k, n)
         /\ run_ids \in RunIdVectors(n)
         /\ labels \in [1..n -> 1..NCat]
         /\ \A i \in 1..(n - 1) :
              labels[i] # labels[i + 1] \/ run_ids[i] # run_ids[i + 1]
    /\ bold_normalized = normalize(bold_data, run_ids)
    /\ CVNotStarted

\* up to MaxRows blocks
InitBlocks == InitBlocksUpTo(MaxRows)

NextDoubleDip == DDBegin \/ DDFold \/ DDFoldError \/ DDEnd

SpecDoubleDip == InitBlocks /\ [][NextDoubleDip]_vars

\* C12: the predefined-split generator yields one (train, test) pair per
\* distinct run, in ascending run order; in the pair of run r the test
\* indices are exactly the samples of r and the train indices exactly all
\* other samples (each index once), so train and test are disjoint, cover
\* every sample, and every sample is a test sample in exactly one pair.
SplitIsLeaveOneRunOut ==
    (pc \in {"dd_loop", "dd_done"}) =>
        LET n    == Len(run_ids)
            runs == SetOf(run_ids)
        IN  /\ Len(sp) = Cardinality(runs)
            /\ \A k \in 1..Len(sp) :
                 LET r == KthOf(runs, k)
                 IN  /\ SetOf(sp[k].test) = {i \in 1..n : run_ids[i] = r}
                     /\ SetOf(sp[k].train) = {i \in 1..n : run_ids[i] # r}
                     /\ Len(sp[k].test) = Cardinality(SetOf(sp[k].test))
                     /\ Len(sp[k].train) = Cardinality(SetOf(sp[k].train))
                     /\ SetOf(sp[k].test) \cap SetOf(sp[k].train) = {}
                     /\ SetOf(sp[k].test) \cup SetOf(sp[k].train) = 1..n
            /\ \A i \in 1..n :
                 Cardinality({k \in 1..Len(sp) : i \in SetOf(sp[k].test)}) = 1

\* three runs, one of them with two blocks
SplitWitness ==
    /\ pc = "dd_loop"
    /\ Len(sp) = vdc_n_runs
    /\ \E k \in 1..Len(sp) : Len(sp[k].test) >= 2

----------------------------------------------------------------------------
(* The order of the stages of the load-data cell *)

IsSquare(x) == \E r \in 0..x : r * r = x

ISqrt(x) == CHOOSE r \in 0..x : r * r = x

\* the rational p = <<a, b>> and the signed root r = <<s, n, d>> are the
\* same number
RatEqualsRoot(p, r) ==
    /\ Sgn(p[1]) = r[1]
    /\ p[1] * p[1] * r[3] = r[2] * p[2] * p[2]

\* two signed roots are the same number
RootEquals(q, r) ==
    /\ q[1] = r[1]
    /\ q[2] * r[3] = r[2] * q[3]

\* the signed roots rs are rational multiples of one another
Commensurable(rs) ==
    \A j, k \in 1..Len(rs) :
        (rs[j][1] # 0 /\ rs[k][1] # 0) =>
            LET q == RatReduce(rs[j][2] * rs[k][3], rs[j][3] * rs[k][2])
            IN  IsSquare(q[1]) /\ IsSquare(q[2])

\* the rational c with r = c * |ref| (ref # 0, r a rational multiple of ref)
RootCoeff(r, ref) ==
    IF r[1] = 0 THEN Rat(0)
    ELSE LET q == RatReduce(r[2] * ref[3], r[3] * ref[2])
         IN  <<r[1] * ISqrt(q[1]), ISqrt(q[2])>>

\* the mean of commensurable signed roots, as a signed root
RootMean(rs) ==
    LET nz == {k \in 1..Len(rs) : rs[k][1] # 0}
    IN  IF nz = {} THEN <<0, 0, 1>>
        ELSE LET ref == rs[CHOOSE k \in nz : \A j \in nz : k <= j]
                 c   == Mean([k \in 1..Len(rs) |-> RootCoeff(rs[k], ref)])
                 sq  == RatReduce(c[1] * c[1] * ref[2], c[2] * c[2] * ref[3])
             IN  IF c[1] = 0 THEN <<0, 0, 1>> ELSE <<Sgn(c[1]), sq[1], sq[2]>>

\* C13: the data preparation is a straight line, each stage consuming the
\* output of the stage before it: the blocks the sampler returns are the
\* averages of the normalizer's output rows (bold_normalized_raw), and the
\* matrix the classification cells read (bold_normalized) is the sampler's
\* output (bold_data).
PipelineIsStraightLine ==
    /\ (pc \in {"sampled", "done"}) =>
          LET b == Blocks(labels_raw, run_ids_raw, 1)
          IN  /\ Len(bold_data) = Len(b)
              /\ \A k \in 1..Len(b), v \in 1..NVox :
                   RatEqualsRoot(
                       bold_data[k][v],
                       RootMean([i \in 1..(b[k][2] - b[k][1] + 1) |->
                                    bold_normalized_raw[b[k][1] + i - 1][v]]))
    /\ (pc = "done") =>
          /\ Len(bold_normalized) = Len(bold_data)
          /\ \A k \in 1..Len(bold_data), v \in 1..NVox :
               RatEqualsRoot(bold_data[k][v], bold_normalized[k][v])

----------------------------------------------------------------------------
(* The double-dipping reference example *)

\* C14: the double-dipping example is kept as documented: in every fold
\* the voxel selection is fit on the full dataset with all labels, so the
\* rows it is fit on include every test row of the fold, while the
\* classifier is fit on the training rows of the fold only and scored on
\* its test rows only.
DoubleDippingKept ==
    (pc \in {"dd_loop", "dd_done"} /\ fold >= 1) =>
        LET train == sp[fold].train
            test  == sp[fold].test
        IN  /\ selected_voxels.rows = AllRows(bold_normalized)
            /\ selected_voxels.X = bold_normalized
            /\ selected_voxels.y = labels
            /\ SetOf(test) \subseteq SetOf(selected_voxels.rows)
            /\ clf.rows = train
            /\ clf.X = SelectKBest_transform(selected_voxels,
                                             Rows(bold_normalized, train))
            /\ clf.y = Rows(labels, train)
            /\ SetOf(clf.rows) \cap SetOf(test) = {}
            /\ score.rows = test
            /\ Len(clf_score) = fold
            /\ clf_score[fold] = score.value

\* the second fold of three is done: a run of two blocks was held out
DoubleDippingWitness ==
    /\ pc = "dd_loop"
    /\ fold = 2
    /\ Len(sp) = vdc_n_runs
    /\ Len(sp[2].test) >= 2
    /\ Len(clf.rows) >= 2

----------------------------------------------------------------------------
(* Mean and variance of the normalizer's output *)

\* the variance of commensurable signed roots: the mean of the squares
\* minus the square of the mean
RootVariance(rs) ==
    LET m == RootMean(rs)
    IN  RatAdd(Mean([k \in 1..Len(rs) |-> RatReduce(rs[k][2], rs[k][3])]),
               RatReduce(-m[2], m[3]))

\* the values of voxel v on the rows of run r, front to back
ColumnOfRun(X, g, r, v) ==
    LET idx == RowsOfRun(g, r) IN [k \in 1..Len(idx) |-> X[idx[k]][v]]

IsConstant(xs) == \A j, k \in 1..Len(xs) : xs[j] = xs[k]

HasMeanZeroVarOne(zs) ==
    /\ Commensurable(zs)
    /\ RootMean(zs) = <<0, 0, 1>>
    /\ RootVariance(zs) = Rat(1)

\* C15 (as claimed): for every run r and every voxel, the normalizer's
\* output on the rows of r has mean 0 and variance 1 over those rows.
NormalizedMeanZeroVarOne ==
    (pc = "normalized_raw") =>
        \A r \in SetOf(run_ids_raw), v \in 1..NVox :
            HasMeanZeroVarOne(ColumnOfRun(bold_normalized_raw, run_ids_raw, r, v))

\* C15 (amended): for every run r and every voxel whose values are not
\* all equal over the rows of r, the normalizer's output on the rows of r
\* has mean 0 and variance 1 over those rows.
NormalizedMeanZeroVarOneIfVarying ==
    (pc = "normalized_raw") =>
        \A r \in SetOf(run_ids_raw), v \in 1..NVox :
            ~IsConstant(ColumnOfRun(bold_data_raw, run_ids_raw, r, v)) =>
                HasMeanZeroVarOne(
                    ColumnOfRun(bold_normalized_raw, run_ids_raw, r, v))

\* a run of three rows with three different values, next to another run
NormalizedMeanVarWitness ==
    /\ pc = "normalized_raw"
    /\ Len(run_ids_raw) = 4
    /\ run_ids_raw[1] = run_ids_raw[3]
    /\ run_ids_raw[4] # run_ids_raw[3]
    /\ bold_data_raw[1] # bold_data_raw[2]
    /\ bold_data_raw[2] # bold_data_raw[3]
    /\ bold_data_raw[1] # bold_data_raw[3]

----------------------------------------------------------------------------
(* The normalizer applied to its own output *)

\* StandardScaler on a column of commensurable signed roots: the values
\* are c[k] * rho for rationals c[k] and one rho > 0, and (x - mean) / std
\* of such a column is that of the column c
ZScoresOfRoots(rs) ==
    LET nz == {k \in 1..Len(rs) : rs[k][1] # 0}
    IN  IF nz = {} THEN [k \in 1..Len(rs) |-> <<0, 0, 1>>]
        ELSE LET ref == rs[CHOOSE k \in nz : \A j \in nz : k <= j]
             IN  ZScores([k \in 1..Len(rs) |-> RootCoeff(rs[k], ref)])

\* normalize(Z, ids) for a matrix Z of signed roots
normalize_roots(Z, ids) ==
    [i \in 1..Len(Z) |->
        LET idx == RowsOfRun(ids, ids[i])
        IN  [v \in 1..Len(Z[i]) |->
                ZScoresOfRoots([k \in 1..Len(idx) |-> Z[idx[k]][v]])[PosIn(idx, i)]]]

\* C16: the normalizer is idempotent per run: normalizing its output
\* again, with the same run ids, returns that output unchanged.
NormalizeIdempotent ==
    (pc = "normalized_raw") =>
        LET again == normalize_roots(bold_normalized_raw, run_ids_raw)
        IN  /\ Len(again) = Len(bold_normalized_raw)
            /\ \A i \in 1..Len(again), v \in 1..NVox :
                 RootEquals(again[i][v], bold_normalized_raw[i][v])

\* two runs of two rows each, the values of the first run differ
NormalizeIdempotentWitness ==
    /\ pc = "normalized_raw"
    /\ Len(run_ids_raw) = 4
    /\ run_ids_raw[1] = run_ids_raw[2]
    /\ run_ids_raw[2] # run_ids_raw[3]
    /\ run_ids_raw[3] = run_ids_raw[4]
    /\ bold_normalized_raw[1][1][1] # 0

----------------------------------------------------------------------------
(* Runs without labelled acquisitions *)

\* the runs of the localizer that have no row in the trialwise data
EmptyRuns == (0..(vdc_n_runs - 1)) \ SetOf(run_ids_raw)

\* C17: a run with zero labelled acquisitions is surfaced as a warning and
\* is not silently dropped: when the cell completes although some run of
\* 0..n_runs-1 has no labelled row after shifting and reshaping, a warning
\* names that run.
EmptyRunIsWarned ==
    (pc = "done") => \A r \in EmptyRuns : r \in warnings

----------------------------------------------------------------------------
(* Section 2.2: the procedure on permuted labels *)

\* n_iters = 10: how many permutations the cell runs
n_iters == 10

\* np.random.permutation(y): the rearrangements of y
Arrangements(y) ==
    {p \in [1..Len(y) -> SetOf(y)] :
        \A c \in SetOf(y) :
            Cardinality({i \in 1..Len(y) : p[i] = c})
                = Cardinality({i \in 1..Len(y) : y[i] = c})}

\* the classifier of one pass through the inner loop body, for the labels
\* perm: fit on the selected voxels of all of bold_normalized
PermFoldClassifier(sel, perm) ==
    ClassifierFit(AllRows(bold_normalized),
                  SelectKBest_transform(sel, bold_normalized), perm, 10000)

\* the score of one pass through the inner loop body, for the labels perm
\* and the test rows test
PermFoldScore(sel, perm, test) ==
    Score(PermFoldClassifier(sel, perm),
          SelectKBest_transform(sel, Rows(bold_normalized, test)),
          Rows(perm, test))

\* sp = PredefinedSplit(run_ids); clf_score = []
PermBegin ==
    /\ pc = "done"
    /\ sp' = PredefinedSplit_split(run_ids)
    /\ clf_score' = <<>>
    /\ iter' = 0
    /\ pc' = "perm_loop"
    /\ UNCHANGED <<err, warnings, vdc_hrf_lag, stim_label_allruns, epi_mask_data_all,
                   shift_size, run_ids_raw, TRs_run, stim_label_TR,
                   stim_label_TR_shifted, bold_data_raw, labels_raw,
                   bold_normalized_raw, bold_data, labels, run_ids,
                   bold_normalized, fold, selected_voxels, clf, score,
                   permuted_labels, clf_score_i, inner_clf, C_best,
                   parameters>>

\* the head of the outer loop body: clf_score_i = [] and a fresh
\* permutation of the labels
PermPermute ==
    /\ pc = "perm_loop"
    /\ iter < n_iters
    /\ clf_score_i' = <<>>
    /\ permuted_labels' \in Arrangements(labels)
    /\ fold' = 0
    /\ pc' = "perm_fold"
    /\ UNCHANGED <<err, warnings, vdc_hrf_lag, stim_label_allruns, epi_mask_data_all,
                   shift_size, run_ids_raw, TRs_run, stim_label_TR,
                   stim_label_TR_shifted, bold_data_raw, labels_raw,
                   bold_normalized_raw, bold_data, labels, run_ids,
                   bold_normalized, sp, selected_voxels, clf, score,
                   clf_score, iter, inner_clf, C_best,
                   parameters>>

\* one pass through the inner loop body
PermFold ==
    /\ pc = "perm_fold"
    /\ fold < Len(sp)
    /\ LET train      == sp[fold + 1].train
           test       == sp[fold + 1].test
           sel        == SelectKBest_fit(AllRows(bold_normalized),
                                         bold_normalized, labels)
           train_data == Rows(bold_normalized, train)
           test_data  == Rows(bold_normalized, test)
       IN  /\ ClassifierFitValid(bold_normalized, permuted_labels)
           /\ selected_voxels' = sel
           /\ clf' = PermFoldClassifier(sel, permuted_labels)
           /\ score' = [rows  |-> test,
                        value |-> PermFoldScore(sel, permuted_labels, test)]
           /\ clf_score_i' = Append(clf_score_i, score'.value)
    /\ fold' = fold + 1
    /\ UNCHANGED <<load_vars, sp, clf_score, iter, permuted_labels,
                   inner_clf, C_best,
                   parameters>>

\* classifier.fit raises: the labels hold a single class
PermFoldError ==
    /\ pc = "perm_fold"
    /\ fold < Len(sp)
    /\ ~ClassifierFitValid(bold_normalized, permuted_labels)
    /\ selected_voxels' = SelectKBest_fit(AllRows(bold_normalized),
                                          bold_normalized, labels)
    /\ pc' = "error"
    /\ err' = "fit"
    /\ UNCHANGED <<warnings, vdc_hrf_lag, stim_label_allruns, epi_mask_data_all,
                   shift_size, run_ids_raw, TRs_run, stim_label_TR,
                   stim_label_TR_shifted, bold_data_raw, labels_raw,
                   bold_normalized_raw, bold_data, labels, run_ids,
                   bold_normalized, sp, fold, clf, score, clf_score, iter,
                   permuted_labels, clf_score_i, inner_clf, C_best,
                   parameters>>

\* the end of the outer loop body: clf_score.append(np.mean(clf_score_i))
PermIterEnd ==
    /\ pc = "perm_fold"
    /\ fold = Len(sp)
    /\ clf_score' = Append(clf_score, Mean(clf_score_i))
    /\ iter' = iter + 1
    /\ pc' = "perm_loop"
    /\ UNCHANGED <<err, warnings, vdc_hrf_lag, stim_label_allruns, epi_mask_data_all,
                   shift_size, run_ids_raw, TRs_run, stim_label_TR,
                   stim_label_TR_shifted, bold_data_raw, labels_raw,
                   bold_normalized_raw, bold_data, labels, run_ids,
                   bold_normalized, sp, fold, selected_voxels, clf, score,
                   permuted_labels, clf_score_i, inner_clf, C_best,
                   parameters>>

\* the loops are over; mean, standard error and chance level are printed
PermEnd ==
    /\ pc = "perm_loop"
    /\ iter = n_iters
    /\ pc' = "perm_done"
    /\ UNCHANGED <<err, warnings, vdc_hrf_lag, stim_label_allruns, epi_mask_data_all,
                   shift_size, run_ids_raw, TRs_run, stim_label_TR,
                   stim_label_TR_shifted, bold_data_raw, labels_raw,
                   bold_normalized_raw, bold_data, labels, run_ids,
                   bold_normalized, cv_vars>>

NextPermuted ==
    PermBegin \/ PermPermute \/ PermFold \/ PermFoldError \/ PermIterEnd \/ PermEnd

\* most blocks per run in the balanced datasets
MaxBlocksPerRun == 2

\* balanced blockwise data: every run holds the same number of blocks, the
\* categories take turns
InitBalancedBlocks ==
    /\ pc = "done"
    /\ err = "none"
    /\ warnings = {}
    /\ vdc_hrf_lag = 0
    /\ shift_size = 0
    /\ TRs_run = 0
    /\ stim_label_allruns = Unset
    /\ epi_mask_data_all = Unset
    /\ stim_label_TR = Unset
    /\ stim_label_TR_shifted = Unset
    /\ run_ids_raw = Unset
    /\ bold_data_raw = Unset
    /\ labels_raw = Unset
    /\ bold_normalized_raw = Unset
    /\ \E b \in 1..MaxBlocksPerRun, o \in 0..(NCat - 1), k \in 1..NEpi :
         /\ bold_data = Epi(k, vdc_n_runs * b)
         /\ run_ids = [i \in 1..(vdc_n_runs * b) |-> (i - 1) \div b]
         /\ labels = [i \in 1..(vdc_n_runs * b) |-> ((i - 1 + o) % NCat) + 1]
    /\ bold_normalized = normalize(bold_data, run_ids)
    /\ CVNotStarted

\* most blocks of the small datasets the permutation cell is run on
MaxPermRows == 3

\* six blocks, two of every category, in runs of three, two and one block;
\* block t has the value t * t in every voxel, which leaves no two blocks
\* with the same pattern after normalisation
InitDistinctBlocks ==
    /\ pc = "done"
    /\ err = "none"
    /\ warnings = {}
    /\ vdc_hrf_lag = 0
    /\ shift_size = 0
    /\ TRs_run = 0
    /\ stim_label_allruns = Unset
    /\ epi_mask_data_all = Unset
    /\ stim_label_TR = Unset
    /\ stim_label_TR_shifted = Unset
    /\ run_ids_raw = Unset
    /\ bold_data_raw = Unset
    /\ labels_raw = Unset
    /\ bold_normalized_raw = Unset
    /\ bold_data = [t \in 1..(2 * NCat) |-> [v \in 1..NVox |-> Rat(t * t)]]
    /\ run_ids = <<0, 0, 0, 1, 1, 2>>
    /\ labels = [i \in 1..(2 * NCat) |-> ((i - 1) % NCat) + 1]
    /\ bold_normalized = normalize(bold_data, run_ids)
    /\ CVNotStarted

\* the data the permutation cell is run on: any dataset of up to MaxPermRows
\* blocks, or the six distinct blocks
InitPermuted == InitBlocksUpTo(MaxPermRows) \/ InitDistinctBlocks

SpecPermuted == InitPermuted /\ [][NextPermuted]_vars

\* C19: the permuted-label check applies the train/test procedure of the
\* voxel-selection example: with the three runs of the localizer present,
\* in every permutation and every fold the
\* classifier is fit on the training rows of the fold only, with the
\* permuted labels of those rows, and scored on the test rows of the fold,
\* so no test row is among the rows it is fit on; only the voxel selection
\* is fit on the full dataset.
PermutedCheckFitsOnTrainingRows ==
    (/\ pc \in {"perm_fold", "perm_loop", "perm_done"}
     /\ fold >= 1
     /\ Len(sp) = vdc_n_runs) =>
        LET train == sp[fold].train
            test  == sp[fold].test
        IN  /\ selected_voxels.rows = AllRows(bold_normalized)
            /\ clf.rows = train
            /\ clf.y = Rows(permuted_labels, train)
            /\ SetOf(clf.rows) \cap SetOf(test) = {}
            /\ score.rows = test

\* every category labels the same number of blocks
Balanced(y) ==
    \A c \in 1..NCat :
        Cardinality({i \in 1..Len(y) : y[i] = c}) * NCat = Len(y)

\* the accuracy the cell computes for the permuted labels perm: the mean of
\* its fold scores
PermutedAccuracy(perm) ==
    LET sel == SelectKBest_fit(AllRows(bold_normalized), bold_normalized, labels)
    IN  Mean([k \in 1..Len(sp) |-> PermFoldScore(sel, perm, sp[k].test)])

\* the share of the permutations of the labels for which test row i is
\* predicted correctly
ShareCorrect(i) ==
    LET sel == SelectKBest_fit(AllRows(bold_normalized), bold_normalized, labels)
        P   == Arrangements(labels)
    IN  RatReduce(
            Cardinality({perm \in P :
                Predict(PermFoldClassifier(sel, perm),
                        SelectKBest_transform(sel, <<bold_normalized[i]>>)[1])
                    = perm[i]}),
            Cardinality(P))

\* the expectation of that accuracy over a uniformly random permutation of
\* the labels: the mean over the folds of the mean over the test rows of a
\* fold of the share of permutations that get the row right
ExpectedPermutedAccuracy ==
    Mean([k \in 1..Len(sp) |->
            Mean([j \in 1..Len(sp[k].test) |-> ShareCorrect(sp[k].test[j])])])

\* p <= q for rationals
RatLeq(p, q) == p[1] * q[2] <= q[1] * p[2]

\* C18: with the labels permuted uniformly at random the cross-validated
\* accuracy of the procedure is at the chance level 1 / NCat in
\* expectation over the permutations: for the three runs of the localizer
\* with every category shown equally often, it is not above chance.  (Every
\* accuracy the cell records is the accuracy of one of these permutations.)
PermutedAccuracyAtChance ==
    (pc = "perm_done" /\ Balanced(labels) /\ Len(sp) = vdc_n_runs) =>
        /\ RatLeq(ExpectedPermutedAccuracy, <<1, NCat>>)
        /\ \A i \in 1..Len(clf_score) :
             \E perm \in Arrangements(labels) :
                 clf_score[i] = PermutedAccuracy(perm)

----------------------------------------------------------------------------
(* Section 4: nested cross-validation *)

\* parameters = {'C': [10e-5, 10e-4, 10e-3, 10e-2, 10e-1, 10e0, 10e1]}, in
\* units of 1e-4
NestedParameters == <<1, 10, 100, 1000, 10000, 100000, 1000000>>

\* the rows of the dataset behind the positions idx of the rows rows
MapRows(rows, idx) == [k \in 1..Len(idx) |-> rows[idx[k]]]

\* the validation score of the grid search for the parameter C on the split
\* s of cv: a classifier fit on the training part of (X, y), scored on the
\* validation part
InnerScore(rows, X, y, s, C) ==
    Score(ClassifierFit(MapRows(rows, s.train), Rows(X, s.train),
                        Rows(y, s.train), C),
          Rows(X, s.test), Rows(y, s.test))

\* the splits of cv on which a classifier can be fit
InnerFitsValid(X, y, cv) ==
    {k \in 1..Len(cv) :
        ClassifierFitValid(Rows(X, cv[k].train), Rows(y, cv[k].train))}

\* GridSearchCV(estimator, grid, cv = cv): the search before fit, without
\* results
GridSearchCV(cv, grid) == [cv |-> cv, param_grid |-> grid]

\* GridSearchCV(estimator, grid, cv = cv).fit(X, y): the mean validation
\* score of every parameter over the splits of cv, the first parameter with
\* the highest mean, and the estimator refit with it on all of (X, y).  A
\* split whose fit fails scores nan for every parameter, which leaves every
\* mean nan and the first parameter the best one.
GridSearchCV_fit(rows, X, y, cv, grid) ==
    LET ok   == InnerFitsValid(X, y, cv) = 1..Len(cv)
        mean == [c \in 1..Len(grid) |->
                    IF ok
                    THEN Mean([k \in 1..Len(cv) |->
                                 InnerScore(rows, X, y, cv[k], grid[c])])
                    ELSE "nan"]
        best == IF ok
                THEN CHOOSE c \in 1..Len(grid) :
                        /\ \A d \in 1..Len(grid) : RatLeq(mean[d], mean[c])
                        /\ \A d \in 1..(c - 1) : ~RatLeq(mean[c], mean[d])
                ELSE 1
    IN  [rows            |-> rows,
         cv              |-> cv,
         param_grid      |-> grid,
         mean_test_score |-> mean,
         best_index_     |-> best,
         best_params_    |-> grid[best],
         best_estimator_ |-> ClassifierFit(rows, X, y, grid[best])]

\* parameters = {'C': [0.01, 0.1, 1, 10]} of the cost search of section 3.1,
\* in units of 1e-4
SearchParameters == <<100, 1000, 10000, 100000>>

\* section 3.1, the search over the cost parameter: clf is a grid search
\* over SearchParameters with the leave-one-run-out split, fit on all of the
\* data.  The cell leaves the notebook ready for the next cell.
CostSearch ==
    /\ pc = "done"
    /\ LET cv == PredefinedSplit_split(run_ids)
       IN  /\ InnerFitsValid(bold_normalized, labels, cv) # {}
           /\ parameters' = SearchParameters
           /\ clf' = GridSearchCV_fit(AllRows(bold_normalized),
                                      bold_normalized, labels, cv,
                                      SearchParameters)
    /\ UNCHANGED <<load_vars, sp, fold, selected_voxels, score, clf_score,
                   iter, permuted_labels, clf_score_i, inner_clf, C_best>>

\* clf.fit raises in section 3.1: no fit of the search succeeds; clf is left
\* as the new search, without results
CostSearchError ==
    /\ pc = "done"
    /\ LET cv == PredefinedSplit_split(run_ids)
       IN  /\ InnerFitsValid(bold_normalized, labels, cv) = {}
           /\ parameters' = SearchParameters
           /\ clf' = GridSearchCV(cv, SearchParameters)
    /\ pc' = "error"
    /\ err' = "fit"
    /\ UNCHANGED <<warnings, vdc_hrf_lag, stim_label_allruns, epi_mask_data_all,
                   shift_size, run_ids_raw, TRs_run, stim_label_TR,
                   stim_label_TR_shifted, bold_data_raw, labels_raw,
                   bold_normalized_raw, bold_data, labels, run_ids,
                   bold_normalized, sp, fold, selected_voxels, score,
                   clf_score, iter, permuted_labels, clf_score_i, inner_clf,
                   C_best>>

\* the cell that prints the nested split: sp = PredefinedSplit(run_ids),
\* then the index sets of every outer and inner fold are printed (see
\* NestedSplitPrinted).  The cell leaves the notebook ready for the next
\* cell.
PrintSplit ==
    /\ pc = "done"
    /\ sp' = PredefinedSplit_split(run_ids)
    /\ UNCHANGED <<load_vars, fold, selected_voxels, clf, score, clf_score,
                   iter, permuted_labels, clf_score_i, inner_clf, C_best,
                   parameters>>

\* sp = PredefinedSplit(run_ids); clf_score = []; C_best = []
NestedBegin ==
    /\ pc = "done"
    /\ sp' = PredefinedSplit_split(run_ids)
    /\ clf_score' = <<>>
    /\ C_best' = <<>>
    /\ fold' = 0
    /\ pc' = "nested_loop"
    /\ UNCHANGED <<err, warnings, vdc_hrf_lag, stim_label_allruns, epi_mask_data_all,
                   shift_size, run_ids_raw, TRs_run, stim_label_TR,
                   stim_label_TR_shifted, bold_data_raw, labels_raw,
                   bold_normalized_raw, bold_data, labels, run_ids,
                   bold_normalized, selected_voxels, clf, score, iter,
                   permuted_labels, clf_score_i, inner_clf,
                   parameters>>

\* variant: the grid search is run on all of the data with the outer split
\* instead of the outer training rows with their inner split
NestedFold_SearchOnAllRows ==
    /\ pc = "nested_loop"
    /\ fold < Len(sp)
    /\ LET train         == sp[fold + 1].train
           test          == sp[fold + 1].test
           train_run_ids == Rows(run_ids, train)
           train_data    == Rows(bold_normalized, train)
           test_data     == Rows(bold_normalized, test)
           train_label   == Rows(labels, train)
           test_label    == Rows(labels, test)
           sp_train      == PredefinedSplit_split(train_run_ids)
           searched      == GridSearchCV_fit(AllRows(bold_normalized),
                                             bold_normalized, labels,
                                             PredefinedSplit_split(run_ids),
                                             NestedParameters)
           C_best_i      == searched.best_params_
           fitted        == ClassifierFit(train, train_data, train_label,
                                          C_best_i)
       IN  /\ InnerFitsValid(train_data, train_label, sp_train) # {}
           /\ parameters' = NestedParameters
           /\ inner_clf' = searched
           /\ C_best' = Append(C_best, C_best_i)
           /\ clf' = fitted
           /\ score' = [rows  |-> test,
                        value |-> Score(fitted, test_data, test_label)]
           /\ clf_score' = Append(clf_score, score'.value)
    /\ fold' = fold + 1
    /\ UNCHANGED <<load_vars, sp, selected_voxels, iter, permuted_labels,
                   clf_score_i>>

\* variant: the final classifier is fit on the training part of the first
\* inner split instead of the whole outer training set
NestedFold_RefitOnInnerTrain ==
    /\ pc = "nested_loop"
    /\ fold < Len(sp)
    /\ LET train         == sp[fold + 1].train
           test          == sp[fold + 1].test
           train_run_ids == Rows(run_ids, train)
           train_data    == Rows(bold_normalized, train)
           test_data     == Rows(bold_normalized, test)
           train_label   == Rows(labels, train)
           test_label    == Rows(labels, test)
           sp_train      == PredefinedSplit_split(train_run_ids)
           searched      == GridSearchCV_fit(train, train_data, train_label,
                                             sp_train, NestedParameters)
           C_best_i      == searched.best_params_
           part          == sp_train[1].train
           fitted        == ClassifierFit(MapRows(train, part),
                                          Rows(train_data, part),
                                          Rows(train_label, part), C_best_i)
       IN  /\ InnerFitsValid(train_data, train_label, sp_train) # {}
           /\ parameters' = NestedParameters
           /\ inner_clf' = searched
           /\ C_best' = Append(C_best, C_best_i)
           /\ clf' = fitted
           /\ score' = [rows  |-> test,
                        value |-> Score(fitted, test_data, test_label)]
           /\ clf_score' = Append(clf_score, score'.value)
    /\ fold' = fold + 1
    /\ UNCHANGED <<load_vars, sp, selected_voxels, iter, permuted_labels,
                   clf_score_i>>

\* one pass through the outer loop body: the grid search on the outer
\* training rows, the classifier refit with the best parameter on the same
\* rows and scored on the test rows
NestedFold ==
    /\ pc = "nested_loop"
    /\ fold < Len(sp)
    /\ LET train         == sp[fold + 1].train
           test          == sp[fold + 1].test
           train_run_ids == Rows(run_ids, train)
           train_data    == Rows(bold_normalized, train)
           test_data     == Rows(bold_normalized, test)
           train_label   == Rows(labels, train)
           test_label    == Rows(labels, test)
           sp_train      == PredefinedSplit_split(train_run_ids)
           searched      == GridSearchCV_fit(train, train_data, train_label,
                                             sp_train, NestedParameters)
           C_best_i      == searched.best_params_
           fitted        == ClassifierFit(train, train_data, train_label,
                                          C_best_i)
       IN  /\ InnerFitsValid(train_data, train_label, sp_train) # {}
           /\ parameters' = NestedParameters
           /\ inner_clf' = searched
           /\ C_best' = Append(C_best, C_best_i)
           /\ clf' = fitted
           /\ score' = [rows  |-> test,
                        value |-> Score(fitted, test_data, test_label)]
           /\ clf_score' = Append(clf_score, score'.value)
    /\ fold' = fold + 1
    /\ UNCHANGED <<load_vars, sp, selected_voxels, iter, permuted_labels,
                   clf_score_i>>

\* inner_clf.fit raises: no fit of the grid search succeeds (no inner split,
\* or no inner training part with two classes).  parameters and inner_clf
\* are bound before the fit: inner_clf is left as the new search, without
\* results.
NestedFoldError ==
    /\ pc = "nested_loop"
    /\ fold < Len(sp)
    /\ LET train         == sp[fold + 1].train
           train_run_ids == Rows(run_ids, train)
           train_data    == Rows(bold_normalized, train)
           train_label   == Rows(labels, train)
           sp_train      == PredefinedSplit_split(train_run_ids)
       IN  /\ InnerFitsValid(train_data, train_label, sp_train) = {}
           /\ parameters' = NestedParameters
           /\ inner_clf' = GridSearchCV(sp_train, NestedParameters)
    /\ pc' = "error"
    /\ err' = "fit"
    /\ UNCHANGED <<warnings, vdc_hrf_lag, stim_label_allruns, epi_mask_data_all,
                   shift_size, run_ids_raw, TRs_run, stim_label_TR,
                   stim_label_TR_shifted, bold_data_raw, labels_raw,
                   bold_normalized_raw, bold_data, labels, run_ids,
                   bold_normalized, sp, fold, selected_voxels, clf, score,
                   clf_score, iter, permuted_labels, clf_score_i, C_best>>

\* the loop is over; the scores and the best parameters are printed
NestedEnd ==
    /\ pc = "nested_loop"
    /\ fold = Len(sp)
    /\ pc' = "nested_done"
    /\ UNCHANGED <<err, warnings, vdc_hrf_lag, stim_label_allruns, epi_mask_data_all,
                   shift_size, run_ids_raw, TRs_run, stim_label_TR,
                   stim_label_TR_shifted, bold_data_raw, labels_raw,
                   bold_normalized_raw, bold_data, labels, run_ids,
                   bold_normalized, cv_vars>>

NextNested ==
    \/ CostSearch \/ CostSearchError
    \/ PrintSplit
    \/ NestedBegin \/ NestedFold \/ NestedFoldError \/ NestedEnd

\* the blockwise data the cell runs on: any small dataset, or a balanced one
InitNested == InitBlocks \/ InitBalancedBlocks

SpecNested == InitNested /\ [][NextNested]_vars

\* the score and the best parameter of outer fold k, computed afresh from
\* the data: the grid search on the training rows of the fold, the
\* classifier with its best parameter fit on those rows and scored on the
\* test rows of the fold
OuterFoldResult(k) ==
    LET train    == sp[k].train
        test     == sp[k].test
        searched == GridSearchCV_fit(train, Rows(bold_normalized, train),
                                     Rows(labels, train),
                                     PredefinedSplit_split(Rows(run_ids, train)),
                                     NestedParameters)
    IN  [C     |-> searched.best_params_,
         score |-> Score(ClassifierFit(train, Rows(bold_normalized, train),
                                       Rows(labels, train),
                                       searched.best_params_),
                         Rows(bold_normalized, test), Rows(labels, test))]

\* C20: in the nested cross-validation, for every outer fold the final
\* classifier is retrained with the hyperparameter chosen by the inner grid
\* search on the whole outer training set (the inner training plus the
\* inner validation rows of every inner split) and is scored once on the
\* held-out run; the score list and the best-C list hold one entry per
\* fold passed, in fold order, and after the loop one entry per run.
NestedRetrainsOnOuterTrain ==
    (pc \in {"nested_loop", "nested_done"}) =>
        /\ Len(clf_score) = fold
        /\ Len(C_best) = fold
        /\ \A k \in 1..fold :
             /\ C_best[k] = OuterFoldResult(k).C
             /\ clf_score[k] = OuterFoldResult(k).score
        /\ (fold >= 1) =>
             LET train == sp[fold].train
                 test  == sp[fold].test
             IN  /\ inner_clf.rows = train
                 /\ clf.C = inner_clf.best_params_
                 /\ clf.C = C_best[fold]
                 /\ clf.rows = train
                 /\ clf.X = Rows(bold_normalized, train)
                 /\ clf.y = Rows(labels, train)
                 /\ \A j \in 1..Len(inner_clf.cv) :
                      SetOf(MapRows(train, inner_clf.cv[j].train))
                        \cup SetOf(MapRows(train, inner_clf.cv[j].test))
                          = SetOf(clf.rows)
                 /\ SetOf(test) = {i \in 1..Len(run_ids) :
                                     run_ids[i] = KthOf(SetOf(run_ids), fold)}
                 /\ score.rows = test
                 /\ score.value = clf_score[fold]
        /\ (pc = "nested_done") =>
             /\ Len(clf_score) = Cardinality(SetOf(run_ids))
             /\ Len(C_best) = Cardinality(SetOf(run_ids))

\* the loop has run over the three runs of a dataset with two blocks per
\* run, and the grid search has chosen a parameter other than the first of
\* the grid for some fold
NestedWitness ==
    /\ pc = "nested_done"
    /\ Len(clf_score) = vdc_n_runs
    /\ Len(inner_clf.cv) = vdc_n_runs - 1
    /\ \E k \in 1..Len(C_best) : C_best[k] # NestedParameters[1]

----------------------------------------------------------------------------
(* Section 4: the index sets of the nested split *)

\* what the cell that prints the nested split prints for the outer pair
\* (train, test): the pairs (train[train_inner], train[val]) of the inner
\* split of run_ids[train], in the order printed
NestedSplitPrinted(train) ==
    LET train_run_ids == Rows(run_ids, train)
        sp_train      == PredefinedSplit_split(train_run_ids)
    IN  [j \in 1..Len(sp_train) |->
            [train |-> MapRows(train, sp_train[j].train),
             val   |-> MapRows(train, sp_train[j].test)]]

\* the samples of run r
SamplesOfRun(r) == {i \in 1..Len(run_ids) : run_ids[i] = r}

\* inner training rows T and inner validation rows V (dataset indices) keep
\* clear of each other and of the outer test rows, make up the outer
\* training rows together, and V is one of the runs other than the held-out
\* run r
InnerPairIsClean(T, V, train, test, r) ==
    /\ SetOf(T) \cap SetOf(V) = {}
    /\ SetOf(T) \cap SetOf(test) = {}
    /\ SetOf(V) \cap SetOf(test) = {}
    /\ SetOf(T) \cup SetOf(V) = SetOf(train)
    /\ \E q \in SetOf(run_ids) \ {r} : SetOf(V) = SamplesOfRun(q)

\* C21: in the nested cross-validation no outer test sample is seen during
\* hyperparameter selection: for every outer fold and every inner fold the
\* inner training and inner validation index sets, mapped back to dataset
\* indices through the outer training indices, are disjoint from each other
\* and from the outer test set, their union is the outer training set, and
\* each inner validation set is exactly one of the remaining runs.  This
\* holds of the index sets the split-printing cell prints for every outer
\* fold of sp, once sp is bound, and of the rows and the split the grid
\* search of the fold just passed was given.
NestedSplitKeepsTestOut ==
    /\ \A k \in 1..Len(sp) :
         LET printed == NestedSplitPrinted(sp[k].train)
         IN  \A j \in 1..Len(printed) :
                InnerPairIsClean(printed[j].train, printed[j].val,
                                 sp[k].train, sp[k].test,
                                 KthOf(SetOf(run_ids), k))
    /\ (pc \in {"nested_loop", "nested_done"} /\ fold >= 1) =>
             /\ SetOf(inner_clf.rows) \cap SetOf(sp[fold].test) = {}
             /\ \A j \in 1..Len(inner_clf.cv) :
                  InnerPairIsClean(
                      MapRows(inner_clf.rows, inner_clf.cv[j].train),
                      MapRows(inner_clf.rows, inner_clf.cv[j].test),
                      sp[fold].train, sp[fold].test,
                      KthOf(SetOf(run_ids), fold))

\* an outer fold of a three-run dataset has been passed whose held-out run
\* holds two blocks and whose grid search had two inner folds, each with a
\* non-empty training and validation part
NestedSplitWitness ==
    /\ pc = "nested_loop"
    /\ fold >= 1
    /\ Len(sp) = vdc_n_runs
    /\ Len(sp[fold].test) >= 2
    /\ Len(inner_clf.cv) = vdc_n_runs - 1
    /\ \A j \in 1..Len(inner_clf.cv) :
         /\ inner_clf.cv[j].train # <<>>
         /\ inner_clf.cv[j].test # <<>>

====
